---------------------------- MODULE Spec2Model ----------------------------
(***************************************************************************)
(* A model of the 3D scene of bc-app: the orbit camera, the tap handling,   *)
(* the render loop and the mount / unmount lifecycle of                    *)
(* components/3d/ModelScene.tsx, and the castle loader and animation       *)
(* driver of components/3d/CastlesGroup.tsx.                               *)
(*                                                                         *)
(* Numbers.  JavaScript numbers are modelled in fixed point:               *)
(*   - lengths (camera distance, world positions) in 1/DistUnit of a world *)
(*     unit;                                                               *)
(*   - angles in 1/AngleUnit of a radian, with Math.PI == 355/113 rad;     *)
(*   - the pinch scale factor in percent;                                  *)
(*   - the animation time t in ticks of 0.01 (one per frame).              *)
(* Division rounds down (\div).  Math.sin / Math.cos are computed by       *)
(* Bhaskara's rational approximation on the reduced angle.                 *)
(***************************************************************************)
EXTENDS Integers, Sequences, FiniteSets, TLC

(* ------------------------------ bounds -------------------------------- *)

\* fixed-point resolution of lengths: one world unit is DistUnit
DistUnit == 100
\* fixed-point resolution of angles: one radian is AngleUnit
AngleUnit == 1000
\* gesture events (pan, pinch, tap, reset) and new mounts of the view in one run
MaxEvents == 3
\* events of the auth backend (sign-ins, refreshes, sign-outs) in one run
MaxAuthEvents == 3
\* animation frames executed in one run
MaxFrames == 3
\* width of the window, in pixels
ScreenWidth == 6
\* longest manifest drawn as an input of the loader
MaxModels == 4

(* --------------------------- program constants ------------------------- *)

CAMERA_MIN_DISTANCE == 35
CAMERA_MAX_DISTANCE == 80
CAMERA_DEFAULT_DISTANCE == 50
CAMERA_DEFAULT_ROTATION == [x |-> 0, y |-> 0]

\* Math.PI, in angle units
PI == (355 * AngleUnit) \div 113

\* the limit of the vertical rotation, Math.PI / 2.5
PitchLimit == (PI * 10) \div 25

\* the rotation one tap adds, Math.PI / 4
TapRotation == PI \div 4

Max(a, b) == IF a >= b THEN a ELSE b
Min(a, b) == IF a <= b THEN a ELSE b

VARIABLES
    \* ---- ModelScene refs ----
    cameraDistance,         \* cameraDistanceRef.current
    cameraRotation,         \* cameraRotationRef.current {x, y}
    targetCameraDistance,   \* targetCameraDistanceRef.current
    targetCameraRotation,   \* targetCameraRotationRef.current {x, y}
    touchStartDistance,     \* touchStartDistanceRef.current
    castleRotations,        \* castleRotationsRef.current, 0-based index i at i+1
    frameCount,             \* frameCountRef.current
    t,                      \* the closure variable t of onContextCreate, in ticks
    cameraPosition,         \* camera.position {x, y, z}
    gestureIndicator,       \* the gestureIndicator state of ModelScene
    gestureTimeoutRef,      \* whether the timer of showGesture is armed
    nEvents,                \* gestures and new mounts so far (bounds the run)
    lastEvent,              \* the handler that ran last, with its inputs
    \* ---- CastlesGroup loader ----
    modelsManifest,         \* the imported manifest
    manifest,               \* loadCastlesGroup's filtered manifest
    loaderPc,               \* where loadCastlesGroup stands
    loopI,                  \* the loop variable i of loadCastlesGroup (0-based)
    texStatus,              \* the texture fetches of the castle being loaded
    loadedTextures,         \* loadSingleCastle's loadedTextures
    gltf,                   \* what the model fetch of loadSingleCastle settled with
    castleGroups,           \* loadCastlesGroup's castleGroups, the castles of onContextCreate
    scene,                  \* the castles added to the THREE.Scene: indices into castleGroups
    \* ---- ModelScene lifecycle ----
    manifestShape,          \* what the import of the manifest module evaluates to
    mounted,                \* mountedRef.current
    loading,                \* the loading state of ModelScene
    ctxPc,                  \* where onContextCreate stands
    animationRef,           \* animationRef.current, 0 for null
    pendingFrames,          \* the ids of the animation frame requests that are out
    renderer,               \* the state of the Renderer of onContextCreate
    disposedCastles,        \* the castles whose meshes were disposed
    remounts,               \* how often the view was mounted again
    tickLog,                \* the steps the last run of animate() took, in order
    \* ---- the console of the runtime ----
    console,                \* the suppression layers around log, warn and error
    \* ---- AuthProvider, RootLayoutNav, LoginScreen ----
    backendSession,         \* the session the auth backend holds, 0 for none
    authMounted,            \* AuthProvider is mounted
    subscribed,             \* the subscription of AuthProvider is live
    session,                \* the session state of AuthProvider, 0 for null
    authLoading,            \* the loading state of AuthProvider
    getSessionPc,           \* where the getSession() call of AuthProvider stands
    getSessionValue,        \* the session getSession() read, 0 for null
    route,                  \* segments[0], the group of the displayed route
    passwordPc,             \* where onSubmit of LoginScreen stands
    oauthPc,                \* where handleGoogleSignIn of LoginScreen stands
    loginLoading,           \* the loading state of LoginScreen
    googleLoading,          \* the googleLoading state of LoginScreen
    nAuthEvents             \* changes of the backend's session so far (bounds the run)

cameraVars == <<cameraDistance, cameraRotation, targetCameraDistance,
                targetCameraRotation, touchStartDistance, castleRotations,
                frameCount, t, cameraPosition, gestureIndicator,
                gestureTimeoutRef, nEvents, lastEvent>>
loaderVars == <<modelsManifest, manifest, loaderPc, loopI, texStatus,
                loadedTextures, gltf, castleGroups, scene>>
hostVars == <<manifestShape, mounted, loading, ctxPc, animationRef,
              pendingFrames, renderer, disposedCastles, remounts, tickLog>>
authVars == <<backendSession, authMounted, subscribed, session, authLoading,
              getSessionPc, getSessionValue, route, passwordPc,
              oauthPc, loginLoading, googleLoading, nAuthEvents>>
vars == <<cameraDistance, cameraRotation, targetCameraDistance,
          targetCameraRotation, touchStartDistance, castleRotations,
          frameCount, t, cameraPosition, gestureIndicator,
          gestureTimeoutRef, nEvents, lastEvent,
          modelsManifest, manifest, loaderPc, loopI, texStatus,
          loadedTextures, gltf, castleGroups, scene,
          manifestShape, mounted, loading, ctxPc, animationRef,
          pendingFrames, renderer, disposedCastles, remounts,
          tickLog, console,
          backendSession, authMounted, subscribed, session, authLoading,
          getSessionPc, getSessionValue, route, passwordPc,
          oauthPc, loginLoading, googleLoading, nAuthEvents>>


(* ------------------------- numeric helpers ----------------------------- *)

\* Bhaskara's approximation of sin on [0, PI], in angle units
Bhaskara(x) ==
    LET p == x * (PI - x)
    IN  (16 * p) \div ((5 * PI * PI - 4 * p) \div AngleUnit)

\* Math.sin of an angle, as a fraction of AngleUnit
MathSin(a) ==
    LET r == a % (2 * PI)
    IN  IF r <= PI THEN Bhaskara(r) ELSE 0 - Bhaskara(r - PI)

\* Math.cos of an angle, as a fraction of AngleUnit
MathCos(a) == MathSin(a + PI \div 2)

(* --------------------- ModelScene: camera controller ------------------- *)

\* lerpFactor = 0.15, in percent
LerpFactorPct == 15

\* the gain of updateCameraRotation, 0.01 rad per pixel, in percent
PanGainPct == 1

\* Math.max(CAMERA_MIN_DISTANCE, Math.min(CAMERA_MAX_DISTANCE, newDistance))
ClampDistance_NoUpper(d) == Max(CAMERA_MIN_DISTANCE * DistUnit, d)
ClampDistance(d) ==
    Max(CAMERA_MIN_DISTANCE * DistUnit, Min(CAMERA_MAX_DISTANCE * DistUnit, d))

\* Math.max(-Math.PI / 2.5, Math.min(Math.PI / 2.5, x))
ClampPitch(x) == Max(0 - PitchLimit, Min(PitchLimit, x))

\* current + (target - current) * lerpFactor
Lerp_Overshoot(current, target) ==
    current + ((target - current) * (100 + LerpFactorPct)) \div 100
Lerp(current, target) == current + ((target - current) * LerpFactorPct) \div 100

\* the record of a handler run: its name and its (up to two) numeric inputs
Event(type, a, b) == [type |-> type, a |-> a, b |-> b]

\* showGesture: set the indicator and (re)arm its 1500 ms timer
showGesture(gesture) ==
    /\ gestureIndicator' = gesture
    /\ gestureTimeoutRef' = TRUE

\* updateCameraRotation(deltaX, deltaY), the deltas in pixels
updateCameraRotation_ClampYaw(deltaX, deltaY) ==
    /\ targetCameraRotation' =
         [y |-> ClampPitch(targetCameraRotation.y
                           + (deltaX * PanGainPct * AngleUnit) \div 100),
          x |-> ClampPitch(targetCameraRotation.x
                           - (deltaY * PanGainPct * AngleUnit) \div 100)]
updateCameraRotation(deltaX, deltaY) ==
    /\ targetCameraRotation' =
         [y |-> targetCameraRotation.y + (deltaX * PanGainPct * AngleUnit) \div 100,
          x |-> ClampPitch(targetCameraRotation.x
                           - (deltaY * PanGainPct * AngleUnit) \div 100)]

\* updateCameraZoom(scale), the scale in percent
updateCameraZoom(scale) ==
    LET newDistance == (touchStartDistance * 100) \div scale
    IN  targetCameraDistance' = ClampDistance(newDistance)

\* saveTouchStartDistance
saveTouchStartDistance_Target == touchStartDistance' = targetCameraDistance
saveTouchStartDistance == touchStartDistance' = cameraDistance

\* the indicator texts of rotateCastle
CastleSpinMessage == <<"CASTLE 1 SPIN!", "CASTLE 2 SPIN!", "CASTLE 3 SPIN!">>

\* a rotateCastle that turns the tapped castle and resets the others
rotateCastle_Exclusive(castleIndex) ==
    /\ castleRotations' =
         [k \in 1..3 |-> IF k = castleIndex + 1
                         THEN castleRotations[k] + TapRotation
                         ELSE 0]
    /\ showGesture(CastleSpinMessage[castleIndex + 1])

\* rotateCastle(castleIndex): castleRotationsRef.current[castleIndex] += Math.PI / 4
rotateCastle(castleIndex) ==
    IF castleIndex >= 0 /\ castleIndex < 3
    THEN /\ castleRotations' =
              [castleRotations EXCEPT ![castleIndex + 1] = @ + TapRotation]
         /\ showGesture(CastleSpinMessage[castleIndex + 1])
    ELSE UNCHANGED <<castleRotations, gestureIndicator, gestureTimeoutRef>>

\* tapGesture.onEnd: the castle of the horizontal third the tap fell in
tappedCastle_Halves(tapX) ==
    IF tapX * 2 < ScreenWidth THEN 0
    ELSE IF tapX * 2 < 2 * ScreenWidth THEN 1
    ELSE 2
tappedCastle(tapX) ==
    IF tapX * 3 < ScreenWidth THEN 0
    ELSE IF tapX * 3 < 2 * ScreenWidth THEN 1
    ELSE 2

(* ---------------------- CastlesGroup: data shapes ---------------------- *)

\* a manifest entry { model, textures }: id names its assets, model tells
\* whether the entry has a model handle, textures is the length of its texture
\* list, -1 when the entry has none
Entry(id, n) == [id |-> id, model |-> TRUE, textures |-> n]

\* the texture fetched for position slot of entry id, as the fetch returns it
RawTexture(id, slot, colorSpace, flipY) ==
    [entry |-> id, slot |-> slot, colorSpace |-> colorSpace, flipY |-> flipY]

\* no texture bound to a channel (null / undefined)
NoTexture == [entry |-> 0, slot |-> 0 - 1, colorSpace |-> "none", flipY |-> FALSE]

\* the material a mesh of a fetched model comes with
EmbeddedMaterial ==
    [type |-> "embedded", color |-> "embedded", map |-> NoTexture,
     normalMap |-> NoTexture, metalnessMap |-> NoTexture,
     roughnessMap |-> NoTexture, metalness |-> 0 - 1, roughness |-> 0 - 1]

\* new THREE.MeshLambertMaterial({ color })
MeshLambertMaterial(color) ==
    [type |-> "MeshLambertMaterial", color |-> color, map |-> NoTexture,
     normalMap |-> NoTexture, metalnessMap |-> NoTexture,
     roughnessMap |-> NoTexture, metalness |-> 0 - 1, roughness |-> 0 - 1]

\* new THREE.MeshStandardMaterial({ map, normalMap, metalnessMap, roughnessMap,
\* metalness: 0.0, roughness: 1.0 })
MeshStandardMaterial(colorMap, normalMap, metallicRoughnessMap) ==
    [type |-> "MeshStandardMaterial", color |-> "white", map |-> colorMap,
     normalMap |-> normalMap, metalnessMap |-> metallicRoughnessMap,
     roughnessMap |-> metallicRoughnessMap, metalness |-> 0, roughness |-> 1]

\* new THREE.Group(): at the origin, unrotated, scale 1
NewGroup(kind, asset, children) ==
    [kind |-> kind, asset |-> asset, children |-> children,
     position |-> [x |-> 0, y |-> 0, z |-> 0],
     rotation |-> [x |-> 0, y |-> 0, z |-> 0],
     scale |-> 1]

\* the meshes of a fetched scene: one with UV coordinates, one without
SceneMeshes ==
    << [geometry |-> "gltf", hasUV |-> TRUE, material |-> EmbeddedMaterial],
       [geometry |-> "gltf", hasUV |-> FALSE, material |-> EmbeddedMaterial] >>

(* --------------------- CastlesGroup: texture loader -------------------- *)

\* loadTextureOptimized, the part after a successful fetch: raw is the texture
\* ExpoTHREE.loadTextureAsync returned, index the position in the texture list
ConfigureTexture_Swapped(raw, index) ==
    [raw EXCEPT !.colorSpace = IF index = 0 THEN "SRGBColorSpace"
                               ELSE IF index = 1 THEN "NoColorSpace"
                               ELSE IF index = 2 THEN "NoColorSpace"
                               ELSE @,
                !.flipY = FALSE]
ConfigureTexture(raw, index) ==
    [raw EXCEPT !.colorSpace = IF index = 0 THEN "NoColorSpace"
                               ELSE IF index = 1 THEN "SRGBColorSpace"
                               ELSE IF index = 2 THEN "NoColorSpace"
                               ELSE @,
                !.flipY = FALSE]

(* ---------------------- CastlesGroup: model loader --------------------- *)

\* applyTexturesToMesh(mesh, textures, meshIndex)
applyTexturesToMesh_Partial(mesh, textures) ==
    IF ~mesh.hasUV THEN mesh
    ELSE [mesh EXCEPT !.material =
              MeshStandardMaterial(
                  IF Len(textures) >= 2 THEN textures[2] ELSE NoTexture,
                  IF Len(textures) >= 1 THEN textures[1] ELSE NoTexture,
                  IF Len(textures) >= 3 THEN textures[3] ELSE NoTexture)]
applyTexturesToMesh(mesh, textures) ==
    IF ~mesh.hasUV THEN mesh
    ELSE IF Len(textures) < 3 THEN mesh
    ELSE [mesh EXCEPT !.material =
              MeshStandardMaterial(textures[2], textures[1], textures[3])]

\* loadSingleCastle, steps 3 and 4: texture every mesh of the fetched scene and
\* wrap the scene in a new group
BuildCastle(entry, textures) ==
    NewGroup("model", entry.id,
             [m \in 1..Len(SceneMeshes) |->
                  applyTexturesToMesh(SceneMeshes[m], textures)])

\* createFallbackCastle(castleIndex)
FallbackColors == <<"magenta", "cyan", "yellow">>
createFallbackCastle(castleIndex) ==
    NewGroup("fallback", 0,
             << [geometry |-> "BoxGeometry", hasUV |-> TRUE,
                 material |-> MeshLambertMaterial(
                     FallbackColors[(castleIndex % Len(FallbackColors)) + 1])],
                [geometry |-> "ConeGeometry", hasUV |-> TRUE,
                 material |-> MeshLambertMaterial("0xff6b6b")] >>)

(* --------------------- CastlesGroup: scene assembler ------------------- *)

\* const scale = 22
CastleScale == 22

\* the positions table of loadCastlesGroup
positions ==
    << [x |-> (0 - 30) * DistUnit, y |-> 0, z |-> 0],
       [x |-> 0, y |-> 0, z |-> 0],
       [x |-> 30 * DistUnit, y |-> 0, z |-> 0] >>

\* positions[i] || positions[0], i 0-based
SlotPosition_Undefined(i) ==
    IF i < Len(positions) THEN positions[i + 1] ELSE [x |-> 0, y |-> 0, z |-> 0]
SlotPosition(i) ==
    IF i < Len(positions) THEN positions[i + 1] ELSE positions[1]

\* castleGroups.forEach: position and scale each group
PlaceCastles_LoadedOnly(groups) ==
    [i \in 1..Len(groups) |->
        IF groups[i].kind = "model"
        THEN [groups[i] EXCEPT !.position = SlotPosition(i - 1),
                               !.scale = CastleScale]
        ELSE groups[i]]
PlaceCastles_FirstSlot(groups) ==
    [i \in 1..Len(groups) |->
        [groups[i] EXCEPT !.position = SlotPosition(0),
                          !.scale = CastleScale]]
PlaceCastles(groups) ==
    [i \in 1..Len(groups) |->
        [groups[i] EXCEPT !.position = SlotPosition(i - 1),
                          !.scale = CastleScale]]

(* ----------------------- CastlesGroup: the loader ---------------------- *)

\* what ExpoTHREE.loadAsync may settle with: a rejection, null, an object
\* without a scene, or a scene
GltfOutcomes == { "throws", "null", "noScene", "scene" }

\* the colour spaces a fetched texture may come with
RawColorSpaces == { "NoColorSpace", "SRGBColorSpace" }

\* a texture fetch not settled yet; a failed one resolves to null
PendingTexture == [state |-> "pending", texture |-> NoTexture]
FailedTexture == [state |-> "failed", texture |-> NoTexture]

\* manifest = data.filter(item => item && item.model && item.textures)
ValidEntry(item) == item.model /\ item.textures >= 0
FilterManifest(data) == SelectSeq(data, ValidEntry)

\* what the import of the manifest module may evaluate to: an array of
\* entries, an object whose default is such an array, a value with no default
\* (null, undefined, an empty object), an object whose default holds entries
\* but is not an array (it has no filter method)
ManifestShapes == { "array", "module", "absent", "malformed" }

\* Array.isArray(modelsManifest) ? modelsManifest : (modelsManifest?.default || [])
ManifestData(shape, items) ==
    IF shape = "array" THEN items
    ELSE IF shape = "absent" THEN << >>
    ELSE items

\* the try / catch around the manifest: data.filter throws on a default that
\* is not an array, and manifest keeps its initial []
LoadManifest_NoFilter(shape, items) ==
    IF shape = "malformed" THEN << >> ELSE ManifestData(shape, items)
LoadManifest(shape, items) ==
    IF shape = "malformed" THEN << >>
    ELSE FilterManifest(ManifestData(shape, items))

\* no group: the value loadSingleCastle resolves to is null
NullResult == [tag |-> "null", group |-> NewGroup("none", 0, << >>)]

\* loadSingleCastle from the settled model fetch on, inside its try / catch
loadSingleCastleTail_NoCatch(entry, textures, outcome) ==
    IF outcome = "throws" THEN [NullResult EXCEPT !.tag = "throw"]
    ELSE IF outcome \in {"null", "noScene"} THEN NullResult
    ELSE [tag |-> "group", group |-> BuildCastle(entry, textures)]
loadSingleCastleTail_Abort(entry, textures, outcome) ==
    IF ~mounted THEN [NullResult EXCEPT !.tag = "throw"]
    ELSE IF outcome \in {"throws", "null", "noScene"} THEN NullResult
    ELSE [tag |-> "group", group |-> BuildCastle(entry, textures)]
loadSingleCastleTail(entry, textures, outcome) ==
    IF outcome = "throws" THEN NullResult
    ELSE IF outcome \in {"null", "noScene"} THEN NullResult
    ELSE [tag |-> "group", group |-> BuildCastle(entry, textures)]

\* loadSingleCastle up to its first await: every texture fetch is issued
StartCastle(index) ==
    /\ loopI' = index
    /\ texStatus' = [j \in 1..manifest'[index + 1].textures |-> PendingTexture]
    /\ loadedTextures' = << >>
    /\ gltf' = "none"
    /\ loaderPc' = "textures"

\* the loop of loadCastlesGroup without its await: the next castle is started
\* while the previous one is still loading
LoopStep_NoAwait(result) ==
    IF loopI + 1 < Len(manifest)
    THEN /\ UNCHANGED <<manifest, castleGroups, scene>>
         /\ StartCastle(loopI + 1)
    ELSE LET pushed == Append(castleGroups,
                              IF result.tag = "group"
                              THEN result.group
                              ELSE createFallbackCastle(loopI))
         IN  /\ castleGroups' = PlaceCastles(pushed)
             /\ scene' = scene \o [k \in 1..Len(pushed) |-> k]
             /\ loaderPc' = "done"
             /\ UNCHANGED <<manifest, loopI, texStatus, loadedTextures, gltf>>

\* the body of the for loop of loadCastlesGroup once loadSingleCastle has
\* settled with result, and what follows the loop when it was the last entry
LoopStep(result) ==
    IF result.tag = "throw"
    THEN /\ loaderPc' = "rejected"
         /\ UNCHANGED <<manifest, loopI, texStatus, loadedTextures, gltf,
                        castleGroups, scene>>
    ELSE LET pushed == Append(castleGroups,
                              IF result.tag = "group"
                              THEN result.group
                              ELSE createFallbackCastle(loopI))
         IN  /\ UNCHANGED manifest
             /\ IF loopI + 1 < Len(manifest)
                THEN /\ castleGroups' = pushed
                     /\ StartCastle(loopI + 1)
                     /\ UNCHANGED scene
                ELSE /\ castleGroups' = PlaceCastles(pushed)
                     /\ scene' = scene \o [k \in 1..Len(pushed) |-> k]
                     /\ loaderPc' = "done"
                     /\ UNCHANGED <<loopI, texStatus, loadedTextures, gltf>>

\* the console nobody has patched: no layer around any of its functions
ConsoleOriginal == [log |-> 0, warn |-> 0, error |-> 0]

\* the messages written to the console, by what they contain: the pixelStorei
\* notice of EXGL, another EXGL message, the texture complaint of
\* THREE.GLTFLoader, anything else
ConsoleMessages == {"EXGL: gl.pixelStorei()", "EXGL:", "THREE.GLTFLoader Couldn't load texture", "other"}

\* whether a layer of suppressGLWarnings around console[fn] drops the message
Suppresses(fn, msg) ==
    IF fn = "error"
    THEN msg \in {"THREE.GLTFLoader Couldn't load texture", "EXGL: gl.pixelStorei()", "EXGL:"}
    ELSE msg = "EXGL: gl.pixelStorei()"

\* suppressGLWarnings(): console.log, console.warn and console.error are each
\* replaced by a function that drops the messages of its patterns and hands
\* every other message to the function it replaced
suppressGLWarnings(c) ==
    [log |-> c.log + 1, warn |-> c.warn + 1, error |-> c.error + 1]

\* how often the original function is called when msg is written to a
\* console function under the given number of layers
RECURSIVE ForwardedTimes(_, _, _)
ForwardedTimes(layers, fn, msg) ==
    IF layers = 0 THEN 1
    ELSE IF Suppresses(fn, msg) THEN 0
    ELSE ForwardedTimes(layers - 1, fn, msg)

\* loadCastlesGroup(scene) up to its first await: it patches the console and
\* reads the manifest; with an empty manifest it returns [] at once
loadCastlesGroupCall ==
    /\ console' = suppressGLWarnings(console)
    /\ manifest' = LoadManifest(manifestShape, modelsManifest)
    /\ IF Len(manifest') = 0
       THEN /\ loaderPc' = "done"
            /\ UNCHANGED <<loopI, texStatus, loadedTextures, gltf>>
       ELSE StartCastle(0)
    /\ UNCHANGED <<modelsManifest, castleGroups, scene>>

\* a call of loadCastlesGroup
LoadCastlesGroup ==
    /\ loaderPc = "idle"
    /\ loadCastlesGroupCall
    /\ UNCHANGED cameraVars
    /\ UNCHANGED hostVars
    /\ UNCHANGED authVars

\* a texture fetch succeeds: loadTextureOptimized configures and returns it
TextureLoaded ==
    /\ loaderPc = "textures"
    /\ \E j \in 1..Len(texStatus), colorSpace \in RawColorSpaces, flipY \in BOOLEAN :
          /\ texStatus[j].state = "pending"
          /\ texStatus' =
               [texStatus EXCEPT ![j] =
                   [state |-> "loaded",
                    texture |-> ConfigureTexture(
                        RawTexture(manifest[loopI + 1].id, j - 1, colorSpace, flipY),
                        j - 1)]]
    /\ UNCHANGED <<modelsManifest, manifest, loaderPc, loopI, loadedTextures,
                   gltf, castleGroups, scene>>
    /\ UNCHANGED cameraVars
    /\ UNCHANGED hostVars
    /\ UNCHANGED console
    /\ UNCHANGED authVars

\* a texture fetch fails: loadTextureOptimized catches and returns null
TextureFailed ==
    /\ loaderPc = "textures"
    /\ \E j \in 1..Len(texStatus) :
          /\ texStatus[j].state = "pending"
          /\ texStatus' = [texStatus EXCEPT ![j] = FailedTexture]
    /\ UNCHANGED <<modelsManifest, manifest, loaderPc, loopI, loadedTextures,
                   gltf, castleGroups, scene>>
    /\ UNCHANGED cameraVars
    /\ UNCHANGED hostVars
    /\ UNCHANGED console
    /\ UNCHANGED authVars

\* Promise.all(texturePromises) resolves once every texture promise has
\* resolved, to the texture or to null
PromiseAll_Race(status) ==
    \E j \in 1..Len(status) : status[j].state # "pending"
PromiseAll(status) ==
    \A j \in 1..Len(status) : status[j].state # "pending"

\* (await Promise.all(texturePromises)).filter(Boolean)
FilterLoaded(status) ==
    LET kept == SelectSeq(status, LAMBDA r : r.state = "loaded")
    IN  [k \in 1..Len(kept) |-> kept[k].texture]

\* loadSingleCastle resumes after Promise.all: with no texture it returns null,
\* otherwise it issues the model fetch
TexturesSettled ==
    /\ loaderPc = "textures"
    /\ PromiseAll(texStatus)
    /\ LET loaded == FilterLoaded(texStatus)
       IN  IF Len(loaded) = 0
           THEN LoopStep(NullResult)
           ELSE /\ loadedTextures' = loaded
                /\ loaderPc' = "model"
                /\ UNCHANGED <<manifest, loopI, texStatus, gltf, castleGroups,
                               scene>>
    /\ UNCHANGED modelsManifest
    /\ UNCHANGED cameraVars
    /\ UNCHANGED hostVars
    /\ UNCHANGED console
    /\ UNCHANGED authVars

\* the model fetch settles
ModelSettled ==
    /\ loaderPc = "model"
    /\ gltf' \in GltfOutcomes
    /\ loaderPc' = "modelSettled"
    /\ UNCHANGED <<modelsManifest, manifest, loopI, texStatus, loadedTextures,
                   castleGroups, scene>>
    /\ UNCHANGED cameraVars
    /\ UNCHANGED hostVars
    /\ UNCHANGED console
    /\ UNCHANGED authVars

\* loadSingleCastle resumes after the model fetch and settles; the loop of
\* loadCastlesGroup takes its result
CastleSettled ==
    /\ loaderPc = "modelSettled"
    /\ LoopStep(loadSingleCastleTail(manifest[loopI + 1], loadedTextures, gltf))
    /\ UNCHANGED modelsManifest
    /\ UNCHANGED cameraVars
    /\ UNCHANGED hostVars
    /\ UNCHANGED console
    /\ UNCHANGED authVars

(* --------------------- CastlesGroup: animation driver ------------------ *)

\* time * rate as an angle: time in ticks of 0.01, rate in thousandths
TimeAngle(ticks, rateMilli) == (ticks * rateMilli * AngleUnit) \div 100000

\* the animateCastles of the earlier loader: it adds to rotation.y on every call
animateCastles_Legacy(groups, time) ==
    [k \in 1..Len(groups) |->
        LET index == k - 1
        IN  [groups[k] EXCEPT
               !.rotation.y = @ + (3 * AngleUnit) \div 1000
                                + (index * AngleUnit) \div 1000,
               !.position.y =
                   (MathSin(TimeAngle(time, 500) + (index * 8 * AngleUnit) \div 10)
                        * 5 * DistUnit) \div (10 * AngleUnit),
               !.rotation.z =
                   (MathSin(TimeAngle(time, 300) + index * AngleUnit) * 20)
                       \div 1000]]

\* a driver that lines the castles up again on every call
animateCastles_Recentred(groups, time) ==
    [k \in 1..Len(groups) |->
        [groups[k] EXCEPT
           !.position.x = 0,
           !.position.y =
               (MathSin(TimeAngle(time, 400) + (k - 1) * 2 * AngleUnit)
                    * 25 * DistUnit) \div (10 * AngleUnit)]]

\* animateCastles(castles, time): the function declares two parameters, a third
\* argument of a call is dropped
animateCastles(groups, time) ==
    [k \in 1..Len(groups) |->
        LET index == k - 1
            offset == index * 2 * AngleUnit
        IN  [groups[k] EXCEPT
               !.position.y =
                   (MathSin(TimeAngle(time, 400) + offset) * 25 * DistUnit)
                       \div (10 * AngleUnit),
               !.rotation.z =
                   (MathSin(TimeAngle(time, 150) + offset) * 20) \div 1000,
               !.rotation.x =
                   (MathCos(TimeAngle(time, 180) + offset \div 2) * 15) \div 1000]]

(* ------------------------ ModelScene: gestures ------------------------- *)

\* the translations (x, y), in pixels, a pan update may report: a drag across
\* the screen, a drag down, a short drag up and to the left
PanTranslations == { <<400, 0>>, <<0, 150>>, <<0 - 40, 0 - 150>> }

\* the scale factors, in percent, a pinch update may report
PinchScales == { 50, 125, 300 }

\* the x coordinates of a tap
TapXs == 0..ScreenWidth

\* panGesture.onStart
PanStart ==
    /\ mounted
    /\ nEvents < MaxEvents
    /\ nEvents' = nEvents + 1
    /\ lastEvent' = Event("panStart", 0, 0)
    /\ showGesture("ROTATING")
    /\ UNCHANGED <<cameraDistance, cameraRotation, targetCameraDistance,
                   targetCameraRotation, touchStartDistance, castleRotations,
                   frameCount, t, cameraPosition>>
    /\ UNCHANGED loaderVars
    /\ UNCHANGED hostVars
    /\ UNCHANGED console
    /\ UNCHANGED authVars

\* panGesture.onUpdate
PanUpdate ==
    /\ mounted
    /\ nEvents < MaxEvents
    /\ nEvents' = nEvents + 1
    /\ \E d \in PanTranslations :
          /\ updateCameraRotation(d[1], d[2])
          /\ lastEvent' = Event("panUpdate", d[1], d[2])
    /\ UNCHANGED <<cameraDistance, cameraRotation, targetCameraDistance,
                   touchStartDistance, castleRotations, frameCount, t,
                   cameraPosition, gestureIndicator, gestureTimeoutRef>>
    /\ UNCHANGED loaderVars
    /\ UNCHANGED hostVars
    /\ UNCHANGED console
    /\ UNCHANGED authVars

\* panGesture.onEnd: setGestureIndicator('')
PanEnd ==
    /\ mounted
    /\ nEvents < MaxEvents
    /\ nEvents' = nEvents + 1
    /\ lastEvent' = Event("panEnd", 0, 0)
    /\ gestureIndicator' = ""
    /\ UNCHANGED <<cameraDistance, cameraRotation, targetCameraDistance,
                   targetCameraRotation, touchStartDistance, castleRotations,
                   frameCount, t, cameraPosition, gestureTimeoutRef>>
    /\ UNCHANGED loaderVars
    /\ UNCHANGED hostVars
    /\ UNCHANGED console
    /\ UNCHANGED authVars

\* pinchGesture.onStart
PinchStart ==
    /\ mounted
    /\ nEvents < MaxEvents
    /\ nEvents' = nEvents + 1
    /\ lastEvent' = Event("pinchStart", 0, 0)
    /\ saveTouchStartDistance
    /\ showGesture("ZOOMING")
    /\ UNCHANGED <<cameraDistance, cameraRotation, targetCameraDistance,
                   targetCameraRotation, castleRotations, frameCount, t,
                   cameraPosition>>
    /\ UNCHANGED loaderVars
    /\ UNCHANGED hostVars
    /\ UNCHANGED console
    /\ UNCHANGED authVars

\* pinchGesture.onUpdate
PinchUpdate ==
    /\ mounted
    /\ nEvents < MaxEvents
    /\ nEvents' = nEvents + 1
    /\ \E scale \in PinchScales :
          /\ updateCameraZoom(scale)
          /\ lastEvent' = Event("pinchUpdate", scale, 0)
    /\ UNCHANGED <<cameraDistance, cameraRotation, targetCameraRotation,
                   touchStartDistance, castleRotations, frameCount, t,
                   cameraPosition, gestureIndicator, gestureTimeoutRef>>
    /\ UNCHANGED loaderVars
    /\ UNCHANGED hostVars
    /\ UNCHANGED console
    /\ UNCHANGED authVars

\* pinchGesture.onEnd: setGestureIndicator('')
PinchEnd ==
    /\ mounted
    /\ nEvents < MaxEvents
    /\ nEvents' = nEvents + 1
    /\ lastEvent' = Event("pinchEnd", 0, 0)
    /\ gestureIndicator' = ""
    /\ UNCHANGED <<cameraDistance, cameraRotation, targetCameraDistance,
                   targetCameraRotation, touchStartDistance, castleRotations,
                   frameCount, t, cameraPosition, gestureTimeoutRef>>
    /\ UNCHANGED loaderVars
    /\ UNCHANGED hostVars
    /\ UNCHANGED console
    /\ UNCHANGED authVars

\* tapGesture.onEnd
Tap ==
    /\ mounted
    /\ nEvents < MaxEvents
    /\ nEvents' = nEvents + 1
    /\ \E tapX \in TapXs :
          /\ rotateCastle(tappedCastle(tapX))
          /\ lastEvent' = Event("tap", tapX, 0)
    /\ UNCHANGED <<cameraDistance, cameraRotation, targetCameraDistance,
                   targetCameraRotation, touchStartDistance, frameCount, t,
                   cameraPosition>>
    /\ UNCHANGED loaderVars
    /\ UNCHANGED hostVars
    /\ UNCHANGED console
    /\ UNCHANGED authVars

\* resetCamera
ResetCamera ==
    /\ mounted
    /\ nEvents < MaxEvents
    /\ nEvents' = nEvents + 1
    /\ targetCameraDistance' = CAMERA_DEFAULT_DISTANCE * DistUnit
    /\ lastEvent' = Event("reset", 0, 0)
    /\ targetCameraRotation' = CAMERA_DEFAULT_ROTATION
    /\ showGesture("RESET VIEW")
    /\ UNCHANGED <<cameraDistance, cameraRotation, touchStartDistance,
                   castleRotations, frameCount, t, cameraPosition>>
    /\ UNCHANGED loaderVars
    /\ UNCHANGED hostVars
    /\ UNCHANGED console
    /\ UNCHANGED authVars

\* the timer of showGesture fires: setGestureIndicator('')
GestureTimeout ==
    /\ gestureTimeoutRef
    /\ lastEvent' = Event("gestureTimeout", 0, 0)
    /\ gestureIndicator' = ""
    /\ gestureTimeoutRef' = FALSE
    /\ UNCHANGED <<cameraDistance, cameraRotation, targetCameraDistance,
                   targetCameraRotation, touchStartDistance, castleRotations,
                   frameCount, t, cameraPosition, nEvents>>
    /\ UNCHANGED loaderVars
    /\ UNCHANGED hostVars
    /\ UNCHANGED console
    /\ UNCHANGED authVars

(* ----------------------- ModelScene: render loop ----------------------- *)

\* the orbit camera's position from distance, pitch and yaw
OrbitPosition(distance, rotation) ==
    LET theta == rotation.y
        phi == PI \div 2 + rotation.x
        ring == (distance * MathSin(phi)) \div AngleUnit
    IN  [x |-> (ring * MathSin(theta)) \div AngleUnit,
         y |-> (distance * MathCos(phi)) \div AngleUnit,
         z |-> (ring * MathCos(theta)) \div AngleUnit]

\* the steps of one run of animate() on a mounted view, in the order of its
\* statements
TickSteps ==
    << "requestAnimationFrame", "t += 0.01", "camera", "animateCastles",
       "renderer.render", "gl.endFrameEXP" >>

\* an animate() that requests the next frame again after presenting
animate_RequestsTwice(fired) ==
    IF ~mounted
    THEN /\ pendingFrames' = pendingFrames \ {fired}
         /\ tickLog' = << >>
         /\ UNCHANGED <<animationRef, t, frameCount, cameraDistance,
                        cameraRotation, cameraPosition, castleGroups>>
    ELSE /\ animationRef' = frameCount + 2
         /\ pendingFrames' =
              (pendingFrames \ {fired}) \cup {frameCount + 1, frameCount + 2}
         /\ tickLog' = Append(TickSteps, "requestAnimationFrame")
         /\ t' = t + 1
         /\ frameCount' = frameCount + 1
         /\ cameraDistance' = Lerp(cameraDistance, targetCameraDistance)
         /\ cameraRotation' =
              [x |-> Lerp(cameraRotation.x, targetCameraRotation.x),
               y |-> Lerp(cameraRotation.y, targetCameraRotation.y)]
         /\ cameraPosition' = OrbitPosition(cameraDistance', cameraRotation')
         /\ castleGroups' = animateCastles(castleGroups, t')

\* one run of animate(), called directly (fired = 0) or by the frame request
\* fired: it stops when the view is unmounted, otherwise it requests the next
\* frame, advances t, smooths and places the camera, animates the castles,
\* renders and presents the frame
animate(fired) ==
    IF ~mounted
    THEN /\ pendingFrames' = pendingFrames \ {fired}
         /\ tickLog' = << >>
         /\ UNCHANGED <<animationRef, t, frameCount, cameraDistance,
                        cameraRotation, cameraPosition, castleGroups>>
    ELSE /\ animationRef' = frameCount + 1
         /\ pendingFrames' = (pendingFrames \ {fired}) \cup {frameCount + 1}
         /\ tickLog' = TickSteps
         /\ t' = t + 1
         /\ frameCount' = frameCount + 1
         /\ cameraDistance' = Lerp(cameraDistance, targetCameraDistance)
         /\ cameraRotation' =
              [x |-> Lerp(cameraRotation.x, targetCameraRotation.x),
               y |-> Lerp(cameraRotation.y, targetCameraRotation.y)]
         /\ cameraPosition' = OrbitPosition(cameraDistance', cameraRotation')
         /\ castleGroups' = animateCastles(castleGroups, t')

\* the requested animation frame fires and runs animate()
Animate ==
    /\ loaderPc = "done"
    /\ frameCount < MaxFrames
    /\ lastEvent' = Event("frame", 0, 0)
    /\ \E fired \in pendingFrames : animate(fired)
    /\ UNCHANGED <<targetCameraDistance, targetCameraRotation,
                   touchStartDistance, castleRotations, gestureIndicator,
                   gestureTimeoutRef, nEvents>>
    /\ UNCHANGED <<modelsManifest, manifest, loaderPc, loopI, texStatus,
                   loadedTextures, gltf, scene>>
    /\ UNCHANGED <<manifestShape, mounted, loading, ctxPc, renderer,
                   disposedCastles, remounts>>
    /\ UNCHANGED console
    /\ UNCHANGED authVars

(* ------------------------ ModelScene: lifecycle ------------------------ *)

\* cancelAnimationFrame(frameId)
cancelAnimationFrame_Ignored(frameId) == pendingFrames' = pendingFrames
cancelAnimationFrame(frameId) == pendingFrames' = pendingFrames \ {frameId}

\* GLView calls onContextCreate(gl): when the view is gone it returns, otherwise
\* it creates the renderer, the scene, the camera and the lights and calls
\* loadCastlesGroup, which runs up to its first await
OnContextCreate ==
    /\ ctxPc = "none"
    /\ IF ~mounted
       THEN /\ ctxPc' = "skipped"
            /\ UNCHANGED <<renderer, cameraPosition, console>>
            /\ UNCHANGED loaderVars
       ELSE /\ ctxPc' = "loading"
            /\ renderer' = "live"
            /\ cameraPosition' = [x |-> 0, y |-> 0, z |-> 50 * DistUnit]
            /\ loadCastlesGroupCall
    /\ UNCHANGED <<cameraDistance, cameraRotation, targetCameraDistance,
                   targetCameraRotation, touchStartDistance, castleRotations,
                   frameCount, t, gestureIndicator, gestureTimeoutRef, nEvents,
                   lastEvent>>
    /\ UNCHANGED <<manifestShape, mounted, loading, animationRef,
                   pendingFrames, disposedCastles, remounts, tickLog>>
    /\ UNCHANGED authVars

\* onContextCreate resumes after await loadCastlesGroup(scene): it hides the
\* loading screen, calls animate() and returns its cleanup function, which the
\* caller of onContextCreate does not take
LoadResolved ==
    /\ ctxPc = "loading"
    /\ loaderPc = "done"
    /\ loading' = FALSE
    /\ ctxPc' = "running"
    /\ lastEvent' = Event("loaded", 0, 0)
    /\ animate(0)
    /\ UNCHANGED <<targetCameraDistance, targetCameraRotation,
                   touchStartDistance, castleRotations, gestureIndicator,
                   gestureTimeoutRef, nEvents>>
    /\ UNCHANGED <<modelsManifest, manifest, loaderPc, loopI, texStatus,
                   loadedTextures, gltf, scene>>
    /\ UNCHANGED <<manifestShape, mounted, renderer, disposedCastles,
                   remounts>>
    /\ UNCHANGED console
    /\ UNCHANGED authVars

\* the cleanup function onContextCreate returns: cancel the frame, dispose the
\* meshes of every castle, dispose the renderer, clear the scene
ContextCleanup ==
    /\ cancelAnimationFrame(animationRef)
    /\ disposedCastles' = 1..Len(castleGroups)
    /\ renderer' = "disposed"
    /\ scene' = << >>

\* the cleanup of the effect of ModelScene, run when the view is unmounted
UseEffectCleanup ==
    /\ mounted' = FALSE
    /\ IF animationRef # 0
       THEN cancelAnimationFrame(animationRef)
       ELSE UNCHANGED pendingFrames

\* the view is unmounted
Unmount ==
    /\ mounted
    /\ UseEffectCleanup
    /\ lastEvent' = Event("unmount", 0, 0)
    /\ UNCHANGED <<cameraDistance, cameraRotation, targetCameraDistance,
                   targetCameraRotation, touchStartDistance, castleRotations,
                   frameCount, t, cameraPosition, gestureIndicator,
                   gestureTimeoutRef, nEvents>>
    /\ UNCHANGED loaderVars
    /\ UNCHANGED <<manifestShape, loading, ctxPc, animationRef, renderer,
                   disposedCastles, remounts, tickLog>>
    /\ UNCHANGED console
    /\ UNCHANGED authVars

\* the view is mounted again, once the load its previous instance started has
\* come to its end: a new instance of ModelScene is constructed and its effect
\* runs
Remount ==
    /\ ~mounted
    /\ ctxPc # "loading"
    /\ nEvents < MaxEvents
    /\ nEvents' = nEvents + 1
    /\ remounts' = remounts + 1
    /\ lastEvent' = Event("mount", 0, 0)
    /\ mounted' = TRUE
    /\ loading' = TRUE
    /\ ctxPc' = "none"
    /\ animationRef' = 0
    /\ pendingFrames' = {}
    /\ renderer' = "none"
    /\ disposedCastles' = {}
    /\ cameraDistance' = CAMERA_DEFAULT_DISTANCE * DistUnit
    /\ cameraRotation' = [x |-> 0, y |-> 0]
    /\ targetCameraDistance' = CAMERA_DEFAULT_DISTANCE * DistUnit
    /\ targetCameraRotation' = [x |-> 0, y |-> 0]
    /\ touchStartDistance' = 0
    /\ castleRotations' = <<0, 0, 0>>
    /\ frameCount' = 0
    /\ t' = 0
    /\ cameraPosition' = [x |-> 0, y |-> 0, z |-> 50 * DistUnit]
    /\ gestureIndicator' = ""
    /\ gestureTimeoutRef' = FALSE
    /\ manifest' = << >>
    /\ loaderPc' = "idle"
    /\ loopI' = 0
    /\ texStatus' = << >>
    /\ loadedTextures' = << >>
    /\ gltf' = "none"
    /\ castleGroups' = << >>
    /\ scene' = << >>
    /\ UNCHANGED <<modelsManifest, manifestShape>>
    /\ tickLog' = << >>
    /\ UNCHANGED console
    /\ UNCHANGED authVars

(* ------------------- AuthProvider and the route guard ------------------ *)

\* what RootLayoutNav shows: nothing while the session check is out (it
\* returns null), otherwise the Stack on the current route
Displayed == IF authMounted /\ ~authLoading THEN route ELSE "none"

\* the effect of RootLayoutNav on the session s and the loading flag l, the
\* route being r: the route it leaves
RouteGuard(s, l, r) ==
    IF l THEN r
    ELSE IF s # 0 /\ r = "(auth)" THEN "(tabs)"
    ELSE IF s = 0 /\ r # "(auth)" THEN "(auth)"
    ELSE r

\* AuthProvider renders with a new session or loading flag: the effect of
\* RootLayoutNav, whose dependencies are [session, loading], runs when one of
\* them changed; a LoginScreen that leaves the screen or comes to it starts
\* with both its loading flags down
Rerender ==
    /\ route' = IF session' # session \/ authLoading' # authLoading
                THEN RouteGuard(session', authLoading', route)
                ELSE route
    /\ IF route' # route
       THEN loginLoading' = FALSE /\ googleLoading' = FALSE
       ELSE UNCHANGED <<loginLoading, googleLoading>>

\* the 3D scene is left alone
SceneUntouched ==
    /\ UNCHANGED cameraVars
    /\ UNCHANGED loaderVars
    /\ UNCHANGED hostVars
    /\ UNCHANGED console

\* the backend reads the stored session for the getSession() call
GetSessionReads ==
    /\ getSessionPc = "called"
    /\ getSessionPc' = "read"
    /\ getSessionValue' = backendSession
    /\ UNCHANGED <<backendSession, authMounted, subscribed, session,
                   authLoading, route, passwordPc, oauthPc, loginLoading,
                   googleLoading, nAuthEvents>>
    /\ SceneUntouched

\* getSession() resolves and its then callback runs: setSession(session),
\* setLoading(false); on an unmounted provider the state updates do nothing
GetSessionResolved ==
    /\ getSessionPc = "read"
    /\ getSessionPc' = "resolved"
    /\ IF authMounted
       THEN /\ session' = getSessionValue
            /\ authLoading' = FALSE
            /\ Rerender
       ELSE UNCHANGED <<session, authLoading, route, loginLoading,
                        googleLoading>>
    /\ UNCHANGED <<backendSession, authMounted, subscribed, getSessionValue,
                   passwordPc, oauthPc, nAuthEvents>>
    /\ SceneUntouched

\* getSession() rejects: the promise has no rejection handler
GetSessionRejected ==
    /\ getSessionPc \in {"called", "read"}
    /\ getSessionPc' = "rejected"
    /\ UNCHANGED <<backendSession, authMounted, subscribed, session,
                   authLoading, getSessionValue, route, passwordPc, oauthPc,
                   loginLoading, googleLoading, nAuthEvents>>
    /\ SceneUntouched

\* the session a change of the backend creates: a new object every time
FreshSession == nAuthEvents + 2

\* the callback of onAuthStateChange: setSession(session)
onAuthStateChange(newSession) ==
    IF subscribed
    THEN session' = newSession
    ELSE UNCHANGED session

\* the backend emits an auth event: the session is signed out, signed in or
\* refreshed (a new session), or announced again as it is
AuthStateChange ==
    /\ nAuthEvents < MaxAuthEvents
    /\ nAuthEvents' = nAuthEvents + 1
    /\ \E newSession \in {0, backendSession, FreshSession} :
          /\ backendSession' = newSession
          /\ onAuthStateChange(newSession)
    /\ UNCHANGED authLoading
    /\ Rerender
    /\ UNCHANGED <<authMounted, subscribed, getSessionPc, getSessionValue,
                   passwordPc, oauthPc>>
    /\ SceneUntouched

\* AuthProvider is unmounted: the cleanup of its effect unsubscribes
AuthUnmount ==
    /\ authMounted
    /\ authMounted' = FALSE
    /\ subscribed' = FALSE
    /\ UNCHANGED <<backendSession, session, authLoading, getSessionPc,
                   getSessionValue, route, passwordPc, oauthPc, loginLoading,
                   googleLoading, nAuthEvents>>
    /\ SceneUntouched

(* ----------------------------- LoginScreen ----------------------------- *)

\* onSubmit up to its await: setLoading(true), signInWithPassword is out
OnSubmit ==
    /\ Displayed = "(auth)"
    /\ ~loginLoading
    /\ passwordPc = "idle"
    /\ loginLoading' = TRUE
    /\ passwordPc' = "signInWithPassword"
    /\ UNCHANGED <<backendSession, authMounted, subscribed, session,
                   authLoading, getSessionPc, getSessionValue, route, oauthPc,
                   googleLoading, nAuthEvents>>
    /\ SceneUntouched

\* signInWithPassword resolves with an error, or throws: an alert is shown
\* and setLoading(false)
PasswordSignInFailed ==
    /\ authMounted
    /\ passwordPc = "signInWithPassword"
    /\ passwordPc' = "idle"
    /\ loginLoading' = FALSE
    /\ UNCHANGED <<backendSession, authMounted, subscribed, session,
                   authLoading, getSessionPc, getSessionValue, route, oauthPc,
                   googleLoading, nAuthEvents>>
    /\ SceneUntouched

\* the sign-in succeeds: the backend holds a new session and announces it to
\* its subscribers, then signInWithPassword resolves and onSubmit goes on to
\* router.replace('/(tabs)')
PasswordSignInSucceeded ==
    /\ authMounted
    /\ passwordPc = "signInWithPassword"
    /\ nAuthEvents < MaxAuthEvents
    /\ nAuthEvents' = nAuthEvents + 1
    /\ backendSession' = FreshSession
    /\ onAuthStateChange(FreshSession)
    /\ passwordPc' = "idle"
    /\ route' = "(tabs)"
    /\ loginLoading' = FALSE
    /\ googleLoading' = FALSE
    /\ UNCHANGED <<authMounted, subscribed, authLoading, getSessionPc,
                   getSessionValue, oauthPc>>
    /\ SceneUntouched

\* handleGoogleSignIn up to its first await: setGoogleLoading(true),
\* signInWithOAuth is out
HandleGoogleSignIn ==
    /\ Displayed = "(auth)"
    /\ ~googleLoading
    /\ oauthPc = "idle"
    /\ googleLoading' = TRUE
    /\ oauthPc' = "signInWithOAuth"
    /\ UNCHANGED <<backendSession, authMounted, subscribed, session,
                   authLoading, getSessionPc, getSessionValue, route,
                   passwordPc, loginLoading, nAuthEvents>>
    /\ SceneUntouched

\* signInWithOAuth resolves with an error or without a url, or throws:
\* setGoogleLoading(false)
OAuthRequestFailed ==
    /\ authMounted
    /\ oauthPc = "signInWithOAuth"
    /\ oauthPc' = "idle"
    /\ googleLoading' = FALSE
    /\ UNCHANGED <<backendSession, authMounted, subscribed, session,
                   authLoading, getSessionPc, getSessionValue, route,
                   passwordPc, loginLoading, nAuthEvents>>
    /\ SceneUntouched

\* signInWithOAuth resolves with the url of the provider: the browser opens
OAuthUrlReturned ==
    /\ authMounted
    /\ oauthPc = "signInWithOAuth"
    /\ oauthPc' = "openAuthSessionAsync"
    /\ UNCHANGED <<backendSession, authMounted, subscribed, session,
                   authLoading, getSessionPc, getSessionValue, route,
                   passwordPc, loginLoading, googleLoading, nAuthEvents>>
    /\ SceneUntouched

\* the results openAuthSessionAsync resolves with
BrowserResults == {"success", "cancel", "dismiss"}

\* openAuthSessionAsync resolves: on 'success' router.replace('/(tabs)'); in
\* every case setGoogleLoading(false)
BrowserReturned ==
    /\ authMounted
    /\ oauthPc = "openAuthSessionAsync"
    /\ oauthPc' = "idle"
    /\ \E result \in BrowserResults :
          route' = IF result = "success" THEN "(tabs)" ELSE route
    /\ googleLoading' = FALSE
    /\ loginLoading' = IF route' # route THEN FALSE ELSE loginLoading
    /\ UNCHANGED <<backendSession, authMounted, subscribed, session,
                   authLoading, getSessionPc, getSessionValue, passwordPc,
                   nAuthEvents>>
    /\ SceneUntouched

\* the user is signed in and the tabs are displayed: the state of the auth
\* flow while the 3D scene is on screen
SignedIn ==
    /\ backendSession = 1
    /\ authMounted = TRUE
    /\ subscribed = TRUE
    /\ session = 1
    /\ authLoading = FALSE
    /\ getSessionPc = "resolved"
    /\ getSessionValue = 1
    /\ route = "(tabs)"
    /\ passwordPc = "idle"
    /\ oauthPc = "idle"
    /\ loginLoading = FALSE
    /\ googleLoading = FALSE
    /\ nAuthEvents = 0

(* --------------------------- the shipped app --------------------------- *)

\* assets/models/index.ts
ShippedManifest == << Entry(1, 3), Entry(2, 3), Entry(3, 3) >>

\* the state of the refs of ModelScene when the component is constructed
CameraInit ==
    /\ cameraDistance = CAMERA_DEFAULT_DISTANCE * DistUnit
    /\ cameraRotation = [x |-> 0, y |-> 0]
    /\ targetCameraDistance = CAMERA_DEFAULT_DISTANCE * DistUnit
    /\ targetCameraRotation = [x |-> 0, y |-> 0]
    /\ touchStartDistance = 0
    /\ castleRotations = <<0, 0, 0>>
    /\ frameCount = 0
    /\ t = 0
    /\ cameraPosition = [x |-> 0, y |-> 0, z |-> 50 * DistUnit]
    /\ gestureIndicator = ""
    /\ gestureTimeoutRef = FALSE
    /\ nEvents = 0
    /\ lastEvent = Event("none", 0, 0)

\* the groups loadCastlesGroup returns for the shipped manifest when every
\* fetch succeeds
ShippedCastles ==
    PlaceCastles(
        [k \in 1..Len(ShippedManifest) |->
            BuildCastle(ShippedManifest[k],
                [j \in 1..3 |->
                    ConfigureTexture(
                        RawTexture(k, j - 1, "NoColorSpace", TRUE), j - 1)])])

\* the scene is up: the shipped manifest has loaded, onContextCreate has
\* hidden the loading screen and run animate() once, the next frame is requested
SceneInit ==
    /\ cameraDistance = CAMERA_DEFAULT_DISTANCE * DistUnit
    /\ cameraRotation = [x |-> 0, y |-> 0]
    /\ targetCameraDistance = CAMERA_DEFAULT_DISTANCE * DistUnit
    /\ targetCameraRotation = [x |-> 0, y |-> 0]
    /\ touchStartDistance = 0
    /\ castleRotations = <<0, 0, 0>>
    /\ frameCount = 1
    /\ t = 1
    /\ cameraPosition =
         OrbitPosition(CAMERA_DEFAULT_DISTANCE * DistUnit, [x |-> 0, y |-> 0])
    /\ gestureIndicator = ""
    /\ gestureTimeoutRef = FALSE
    /\ nEvents = 0
    /\ lastEvent = Event("loaded", 0, 0)
    /\ modelsManifest = ShippedManifest
    /\ manifest = ShippedManifest
    /\ loaderPc = "done"
    /\ loopI = Len(ShippedManifest) - 1
    /\ texStatus = << >>
    /\ loadedTextures = << >>
    /\ gltf = "none"
    /\ castleGroups = animateCastles(ShippedCastles, 1)
    /\ scene = <<1, 2, 3>>
    /\ manifestShape = "array"
    /\ mounted = TRUE
    /\ loading = FALSE
    /\ ctxPc = "running"
    /\ animationRef = 1
    /\ pendingFrames = {1}
    /\ tickLog = TickSteps
    /\ console = suppressGLWarnings(ConsoleOriginal)
    /\ SignedIn
    /\ renderer = "live"
    /\ disposedCastles = {}
    /\ remounts = 0

SceneNext ==
    \/ PanStart
    \/ PanUpdate
    \/ PanEnd
    \/ PinchStart
    \/ PinchUpdate
    \/ PinchEnd
    \/ Tap
    \/ ResetCamera
    \/ GestureTimeout
    \/ Animate

\* gestures and frames on the loaded scene
SpecScene == SceneInit /\ [][SceneNext]_vars

(* ---------------------------- loader inputs ---------------------------- *)

\* the shapes a manifest entry may deviate to: no model handle, no texture
\* list, a fourth texture, an empty texture list
EntryVariants(id) ==
    { [id |-> id, model |-> FALSE, textures |-> 3],
      [id |-> id, model |-> TRUE, textures |-> 0 - 1],
      Entry(id, 4),
      Entry(id, 0) }

\* the manifests of n entries: model + 3 textures each, but for at most one
\* entry that deviates
ManifestsOfLen(n) ==
    { [k \in 1..n |-> Entry(k, 3)] } \cup
    { [k \in 1..n |-> IF k = v[1] THEN v[2] ELSE Entry(k, 3)] :
        v \in UNION { {<<d, e>> : e \in EntryVariants(d)} : d \in 1..n } }

Manifests == UNION { ManifestsOfLen(n) : n \in 0..MaxModels }

\* the imports of the loader: every manifest as an array, and the shipped
\* manifest in each of the other shapes
ManifestImports ==
    { <<"array", m>> : m \in Manifests } \cup
    { <<"module", ShippedManifest>>, <<"absent", << >> >>,
      <<"malformed", ShippedManifest>> }

\* the refs and the state of ModelScene once it is mounted, before the GL
\* context exists
ViewInit ==
    /\ CameraInit
    /\ mounted = TRUE
    /\ loading = TRUE
    /\ animationRef = 0
    /\ pendingFrames = {}
    /\ disposedCastles = {}
    /\ remounts = 0
    /\ tickLog = << >>
    /\ console = ConsoleOriginal
    /\ SignedIn

\* nothing is loaded
LoaderIdle ==
    /\ manifest = << >>
    /\ loaderPc = "idle"
    /\ loopI = 0
    /\ texStatus = << >>
    /\ loadedTextures = << >>
    /\ gltf = "none"
    /\ castleGroups = << >>
    /\ scene = << >>

\* onContextCreate is about to call loadCastlesGroup on some manifest
LoaderInit ==
    /\ ViewInit
    /\ ctxPc = "loading"
    /\ renderer = "live"
    /\ \E imp \in ManifestImports :
          /\ manifestShape = imp[1]
          /\ modelsManifest = imp[2]
    /\ LoaderIdle

LoaderNext ==
    \/ LoadCastlesGroup
    \/ TextureLoaded
    \/ TextureFailed
    \/ TexturesSettled
    \/ ModelSettled
    \/ CastleSettled

\* one call of loadCastlesGroup
SpecLoader == LoaderInit /\ [][LoaderNext]_vars

(* ------------------------- the view's lifecycle ------------------------ *)

\* the imports the view is run on: the shipped manifest, a manifest of two
\* entries as the default of a module object, empty and unusable imports, and
\* manifests whose entries lack a model or a texture list
HostImports ==
    { <<"array", ShippedManifest>>,
      <<"module", << Entry(1, 3), Entry(2, 3) >> >>,
      <<"array", << >> >>,
      <<"absent", << >> >>,
      <<"malformed", ShippedManifest>>,
      <<"array", << [id |-> 1, model |-> FALSE, textures |-> 3],
                    [id |-> 2, model |-> TRUE, textures |-> 0 - 1] >> >>,
      <<"array", << [id |-> 1, model |-> TRUE, textures |-> 0 - 1],
                    Entry(2, 3) >> >> }

\* ModelScene is mounted, the GL context does not exist yet
HostInit ==
    /\ ViewInit
    /\ ctxPc = "none"
    /\ renderer = "none"
    /\ \E imp \in HostImports :
          /\ manifestShape = imp[1]
          /\ modelsManifest = imp[2]
    /\ LoaderIdle

HostNext ==
    \/ OnContextCreate
    \/ TextureLoaded
    \/ TextureFailed
    \/ TexturesSettled
    \/ ModelSettled
    \/ CastleSettled
    \/ LoadResolved
    \/ Animate
    \/ Unmount
    \/ Remount

\* the life of the view: mount, context, load, frames, unmount and a new mount
SpecHost == HostInit /\ [][HostNext]_vars

\* the same, with the scheduling of the runtime: the GL context is created, a
\* fetch that is out settles, a continuation that is ready runs, a requested
\* frame fires; the view may stay mounted, or unmounted, for ever
SpecHostFair ==
    /\ SpecHost
    /\ WF_vars(OnContextCreate)
    /\ WF_vars(TextureLoaded \/ TextureFailed)
    /\ WF_vars(TexturesSettled)
    /\ WF_vars(ModelSettled)
    /\ WF_vars(CastleSettled)
    /\ WF_vars(LoadResolved)
    /\ WF_vars(Animate)

\* the manifest of the sessions with gestures: one castle with one texture
SessionManifest == << Entry(1, 1) >>

\* ModelScene is mounted on the session manifest, the GL context does not exist
\* yet
SessionInit ==
    /\ ViewInit
    /\ ctxPc = "none"
    /\ renderer = "none"
    /\ manifestShape = "array"
    /\ modelsManifest = SessionManifest
    /\ LoaderIdle

SessionNext ==
    \/ OnContextCreate
    \/ TextureLoaded
    \/ TextureFailed
    \/ TexturesSettled
    \/ ModelSettled
    \/ CastleSettled
    \/ LoadResolved
    \/ Animate
    \/ Unmount
    \/ Remount
    \/ PanUpdate
    \/ PinchStart
    \/ PinchUpdate
    \/ Tap
    \/ ResetCamera

\* the life of the view with the gestures that move the camera or turn a
\* castle
SpecSession == SessionInit /\ [][SessionNext]_vars

(* ----------------------------- the auth flow --------------------------- *)

\* the app starts: AuthProvider is mounted, its effect has called getSession()
\* and subscribed; the backend holds the stored session, if any; the router is
\* on its initial route and the 3D scene is not mounted
AuthInit ==
    /\ backendSession \in {0, 1}
    /\ authMounted = TRUE
    /\ subscribed = TRUE
    /\ session = 0
    /\ authLoading = TRUE
    /\ getSessionPc = "called"
    /\ getSessionValue = 0
    /\ route = "(auth)"
    /\ passwordPc = "idle"
    /\ oauthPc = "idle"
    /\ loginLoading = FALSE
    /\ googleLoading = FALSE
    /\ nAuthEvents = 0
    /\ CameraInit
    /\ LoaderIdle
    /\ manifestShape = "array"
    /\ modelsManifest = ShippedManifest
    /\ mounted = FALSE
    /\ loading = TRUE
    /\ ctxPc = "none"
    /\ animationRef = 0
    /\ pendingFrames = {}
    /\ renderer = "none"
    /\ disposedCastles = {}
    /\ remounts = 0
    /\ tickLog = << >>
    /\ console = ConsoleOriginal

AuthNext ==
    \/ GetSessionReads
    \/ GetSessionResolved
    \/ GetSessionRejected
    \/ AuthStateChange
    \/ AuthUnmount
    \/ OnSubmit
    \/ PasswordSignInFailed
    \/ PasswordSignInSucceeded
    \/ HandleGoogleSignIn
    \/ OAuthRequestFailed
    \/ OAuthUrlReturned
    \/ BrowserReturned

\* the session check, the auth events and the sign-in attempts of the login
\* screen
SpecAuth == AuthInit /\ [][AuthNext]_vars

(* ------------------------- the animation driver ------------------------ *)

\* the times, in ticks of 0.01, animateCastles is called with
DriverTimes == { 0, 100, 250 }

\* the transforms a group may have before a call: position.y and the three
\* rotations, in length and angle units
PriorTransforms ==
    { [py |-> py, rx |-> rx, ry |-> ry, rz |-> 0 - rx] :
        py \in {0, 7 * DistUnit}, rx \in {0, AngleUnit \div 10},
        ry \in {0, PI \div 4} }

\* the group g with the transform p
WithTransform(g, p) ==
    [g EXCEPT !.position.y = p.py, !.rotation.x = p.rx,
              !.rotation.y = p.ry, !.rotation.z = p.rz]

\* the accumulated rotations animate passes along
DriverRotations == { <<0, 0, 0>>, <<PI \div 4, 0, 2 * (PI \div 4)>> }

\* animateCastles is about to be called on the three castles of the shipped
\* manifest, their transforms arbitrary
DriverInit ==
    /\ cameraDistance = CAMERA_DEFAULT_DISTANCE * DistUnit
    /\ cameraRotation = [x |-> 0, y |-> 0]
    /\ targetCameraDistance = CAMERA_DEFAULT_DISTANCE * DistUnit
    /\ targetCameraRotation = [x |-> 0, y |-> 0]
    /\ touchStartDistance = 0
    /\ castleRotations \in DriverRotations
    /\ frameCount = 0
    /\ t \in DriverTimes
    /\ cameraPosition = [x |-> 0, y |-> 0, z |-> 50 * DistUnit]
    /\ gestureIndicator = ""
    /\ gestureTimeoutRef = FALSE
    /\ nEvents = 0
    /\ lastEvent = Event("none", 0, 0)
    /\ modelsManifest = ShippedManifest
    /\ manifest = ShippedManifest
    /\ loaderPc = "done"
    /\ loopI = Len(ShippedManifest) - 1
    /\ texStatus = << >>
    /\ loadedTextures = << >>
    /\ gltf = "none"
    /\ \E p \in [1..Len(ShippedCastles) -> PriorTransforms] :
          castleGroups =
              [k \in 1..Len(ShippedCastles) |-> WithTransform(ShippedCastles[k], p[k])]
    /\ scene = <<1, 2, 3>>
    /\ manifestShape = "array"
    /\ mounted = TRUE
    /\ loading = FALSE
    /\ ctxPc = "running"
    /\ animationRef = 0
    /\ pendingFrames = {}
    /\ tickLog = << >>
    /\ console = suppressGLWarnings(ConsoleOriginal)
    /\ SignedIn
    /\ renderer = "live"
    /\ disposedCastles = {}
    /\ remounts = 0

\* animateCastles(castles, t, castleRotationsRef.current) is called
DriverCall ==
    /\ frameCount < MaxFrames
    /\ frameCount' = frameCount + 1
    /\ lastEvent' = Event("animateCastles", t, 0)
    /\ castleGroups' = animateCastles(castleGroups, t)
    /\ UNCHANGED <<cameraDistance, cameraRotation, targetCameraDistance,
                   targetCameraRotation, touchStartDistance, castleRotations,
                   t, cameraPosition, gestureIndicator, gestureTimeoutRef,
                   nEvents>>
    /\ UNCHANGED <<modelsManifest, manifest, loaderPc, loopI, texStatus,
                   loadedTextures, gltf, scene>>
    /\ UNCHANGED hostVars
    /\ UNCHANGED console
    /\ UNCHANGED authVars

\* the time passes between two calls
DriverTime ==
    /\ nEvents < MaxEvents
    /\ nEvents' = nEvents + 1
    /\ \E time \in DriverTimes :
          /\ time # t
          /\ t' = time
          /\ lastEvent' = Event("time", time, 0)
    /\ UNCHANGED <<cameraDistance, cameraRotation, targetCameraDistance,
                   targetCameraRotation, touchStartDistance, castleRotations,
                   frameCount, cameraPosition, gestureIndicator,
                   gestureTimeoutRef>>
    /\ UNCHANGED loaderVars
    /\ UNCHANGED hostVars
    /\ UNCHANGED console
    /\ UNCHANGED authVars

DriverNext ==
    \/ DriverCall
    \/ DriverTime

\* calls of animateCastles on arbitrary transforms
SpecDriver == DriverInit /\ [][DriverNext]_vars

(* ======================= claims: camera and taps ======================= *)

\* C1: after any sequence of pan updates, pinch starts, pinch updates, taps,
\* camera resets and frames from the default state, the current and the target
\* camera distance lie in [CAMERA_MIN_DISTANCE, CAMERA_MAX_DISTANCE] = [35, 80]
\* and the current and the target pitch lie in [-PI/2.5, PI/2.5].
C1_CameraWithinLimits ==
    /\ cameraDistance >= 35 * DistUnit /\ cameraDistance <= 80 * DistUnit
    /\ targetCameraDistance >= 35 * DistUnit
    /\ targetCameraDistance <= 80 * DistUnit
    /\ cameraRotation.x >= 0 - (PI * 10) \div 25
    /\ cameraRotation.x <= (PI * 10) \div 25
    /\ targetCameraRotation.x >= 0 - (PI * 10) \div 25
    /\ targetCameraRotation.x <= (PI * 10) \div 25

\* C1 witness: a pinch was clamped at the far limit and a pan at the pitch
\* limit, and a frame has since moved the camera towards both.
C1_Witness ==
    /\ targetCameraDistance = 80 * DistUnit
    /\ targetCameraRotation.x = (PI * 10) \div 25
    /\ frameCount > 0
    /\ cameraDistance > 50 * DistUnit
    /\ cameraRotation.x > 0

\* the horizontal band of a tap: 0 below width/3, 1 below 2*width/3, 2 otherwise
TapBand(x) ==
    IF 3 * x < ScreenWidth THEN 0 ELSE IF 3 * x < 2 * ScreenWidth THEN 1 ELSE 2

\* C2 as claimed: a tap in band k adds exactly a quarter turn (PI/2) to item k's
\* accumulated rotation and leaves the other two unchanged.
C2_TapAddsQuarterTurn ==
    [][lastEvent'.type = "tap" =>
          castleRotations' =
              [castleRotations EXCEPT ![TapBand(lastEvent'.a) + 1] = @ + PI \div 2]
      ]_vars

\* C2 as amended: a tap in band k adds exactly an eighth turn (PI/4) to item k's
\* accumulated rotation and leaves the other two unchanged.
C2_TapAddsEighthTurn ==
    [][lastEvent'.type = "tap" =>
          castleRotations' =
              [castleRotations EXCEPT ![TapBand(lastEvent'.a) + 1] = @ + PI \div 4]
      ]_vars

\* C2 witness: the middle band has been tapped twice, the others never.
C2_Witness ==
    /\ lastEvent.type = "tap"
    /\ TapBand(lastEvent.a) = 1
    /\ castleRotations = <<0, 2 * (PI \div 4), 0>>

\* the rotation.y a frame gives a group that was never tapped: animateCastles
\* leaves rotation.y at the 0 the group was created with
UntappedSpin == NewGroup("model", 0, << >>).rotation.y

\* C3: every frame sets each group's rotation.y to the base spin plus the
\* item's accumulated tap rotation, so that a tap shows in the next frame.
C3_FrameAddsTapRotation ==
    lastEvent.type = "frame" =>
        \A k \in 1..Len(castleGroups) :
            castleGroups[k].rotation.y = UntappedSpin + castleRotations[k]

(* ========================== claims: the loader ========================= *)

\* the entries of the import: those of the array it is or has as default, none
\* otherwise
ImportedEntries ==
    IF manifestShape \in {"array", "module"} THEN modelsManifest ELSE << >>

\* the entries of the imported manifest that have a model and a texture list
ValidEntries == SelectSeq(ImportedEntries, LAMBDA e : e.model /\ e.textures # 0 - 1)

\* the slot of index k (1-based): 30 units left of the origin, the origin,
\* 30 units right of it, and the left slot again for every further index
SlotOfIndex(k) ==
    [x |-> (IF k = 1 THEN 0 - 30 ELSE IF k = 2 THEN 0 ELSE IF k = 3 THEN 30
            ELSE 0 - 30) * DistUnit,
     y |-> 0, z |-> 0]

\* C4: whatever the manifest and whatever the outcomes of the texture and
\* model fetches, loadCastlesGroup returns one group per valid manifest entry,
\* in manifest order (a loaded group holds the model of its entry), and the
\* group at index i has the position and the scale of index i whether it was
\* loaded or is the fallback.
C4_OneGroupPerEntryPlacedByIndex ==
    loaderPc = "done" =>
        /\ Len(castleGroups) = Len(ValidEntries)
        /\ \A k \in 1..Len(castleGroups) :
              /\ castleGroups[k].kind \in {"model", "fallback"}
              /\ castleGroups[k].kind = "model" =>
                     castleGroups[k].asset = ValidEntries[k].id
              /\ castleGroups[k].position = SlotOfIndex(k)
              /\ castleGroups[k].scale = 22

\* C4 witness: a manifest with an invalid entry has loaded into a fallback
\* followed by a loaded model.
C4_Witness ==
    /\ loaderPc = "done"
    /\ Len(ImportedEntries) > Len(ValidEntries)
    /\ Len(castleGroups) >= 2
    /\ castleGroups[1].kind = "fallback"
    /\ castleGroups[2].kind = "model"

\* C5: the group at index i of n is placed at the fixed slot of index i when
\* n <= 3 and at x = (i - (n-1)/2) * spacing when n > 3 (spacing = 30, the
\* distance of the slots); two groups never share a position.
C5_SlotOrEvenSpacing ==
    loaderPc = "done" =>
        LET n == Len(castleGroups)
        IN  /\ \A k \in 1..n :
                  IF n <= 3
                  THEN castleGroups[k].position = SlotOfIndex(k)
                  ELSE /\ 2 * castleGroups[k].position.x
                            = (2 * (k - 1) - (n - 1)) * 30 * DistUnit
                       /\ castleGroups[k].position.y = 0
                       /\ castleGroups[k].position.z = 0
            /\ \A k, l \in 1..n :
                  k # l => castleGroups[k].position # castleGroups[l].position

\* every fetch of the load succeeded: each group is a model whose mesh with UV
\* coordinates got the material made of its textures
AllLoadedAndTextured ==
    \A k \in 1..Len(castleGroups) :
        /\ castleGroups[k].kind = "model"
        /\ castleGroups[k].children[1].material.type = "MeshStandardMaterial"

\* the manifest has three entries, each a model and three textures
ThreeValidEntries ==
    /\ Len(ImportedEntries) = 3
    /\ \A k \in 1..3 : ImportedEntries[k].model /\ ImportedEntries[k].textures = 3

\* C6 as claimed: three valid entries whose fetches all succeed give three
\* groups in the scene at (-25,0,0), (0,0,0) and (25,0,0), all of one scale.
C6_ThreeCastlesAt25 ==
    (loaderPc = "done" /\ ThreeValidEntries /\ AllLoadedAndTextured) =>
        /\ Len(castleGroups) = 3
        /\ scene = <<1, 2, 3>>
        /\ \A k \in 1..3 :
              /\ castleGroups[k].position =
                     [x |-> (k - 2) * 25 * DistUnit, y |-> 0, z |-> 0]
              /\ castleGroups[k].scale = castleGroups[1].scale

\* C6 as amended: the three groups are at (-30,0,0), (0,0,0) and (30,0,0), all
\* scaled by 22.
C6_ThreeCastlesAt30 ==
    (loaderPc = "done" /\ ThreeValidEntries /\ AllLoadedAndTextured) =>
        /\ Len(castleGroups) = 3
        /\ scene = <<1, 2, 3>>
        /\ \A k \in 1..3 :
              /\ castleGroups[k].position =
                     [x |-> (k - 2) * 30 * DistUnit, y |-> 0, z |-> 0]
              /\ castleGroups[k].scale = 22

\* C6 witness: the load of three valid entries is done, every fetch succeeded.
C6_Witness ==
    /\ loaderPc = "done"
    /\ ThreeValidEntries
    /\ AllLoadedAndTextured
    /\ Len(castleGroups) = 3

\* every texture fetch of the castle being loaded has settled
AllTexturesSettled ==
    /\ loaderPc = "textures"
    /\ PromiseAll(texStatus)

\* the textures that loaded, among the settled fetches
NumLoaded == Cardinality({ j \in 1..Len(texStatus) : texStatus[j].state = "loaded" })

\* the step appends the fallback for the current index and goes on to the next
\* entry, or finishes the load when there is none
FallbackAndContinue ==
    /\ Len(castleGroups') = Len(castleGroups) + 1
    /\ castleGroups'[Len(castleGroups')].kind = "fallback"
    /\ \/ loaderPc' = "done" /\ loopI + 1 = Len(manifest)
       \/ loaderPc' = "textures" /\ loopI' = loopI + 1

\* C7: loadCastlesGroup never rejects; a model fetch that throws, resolves to
\* null or has no scene, and a castle none of whose textures loaded, make
\* loadSingleCastle return no group, and the loop appends the fallback for
\* that index and continues with the next entry.
C7_FailureContained ==
    /\ [](loaderPc # "rejected")
    /\ [][(loaderPc = "modelSettled" /\ gltf # "scene") => FallbackAndContinue]_vars
    /\ [][(AllTexturesSettled /\ NumLoaded = 0) => FallbackAndContinue]_vars

\* C7 witness: the first castle failed and got the fallback, the loop went on
\* to the second, whose model fetch has just thrown.
C7_Witness ==
    /\ loaderPc = "modelSettled"
    /\ gltf = "throws"
    /\ loopI = 1
    /\ Len(castleGroups) = 1
    /\ castleGroups[1].kind = "fallback"

\* the step appends a group built from the fetched scene whose meshes keep
\* their embedded material
UntexturedModelAppended ==
    /\ Len(castleGroups') = Len(castleGroups) + 1
    /\ LET g == castleGroups'[Len(castleGroups')]
       IN  /\ g.kind = "model"
           /\ g.asset = manifest[loopI + 1].id
           /\ \A m \in 1..Len(g.children) : g.children[m].material.type = "embedded"

\* C8 as claimed: with fewer than 3 textures loaded, none included, the loader
\* still fetches the model, and a fetched scene becomes the group, untextured.
C8_FewTexturesStillLoad ==
    /\ [][(AllTexturesSettled /\ NumLoaded < 3) => loaderPc' = "model"]_vars
    /\ [][(loaderPc = "modelSettled" /\ gltf = "scene" /\ Len(loadedTextures) < 3)
             => UntexturedModelAppended]_vars

\* C8 as amended: with at least one but fewer than 3 textures loaded, the
\* loader still fetches the model, and a fetched scene becomes the group,
\* untextured; with no texture loaded the model is not fetched and the
\* fallback is substituted.
C8_SomeTexturesStillLoad ==
    /\ [][(AllTexturesSettled /\ NumLoaded >= 1 /\ NumLoaded < 3)
             => loaderPc' = "model"]_vars
    /\ [][(loaderPc = "modelSettled" /\ gltf = "scene" /\ Len(loadedTextures) < 3)
             => UntexturedModelAppended]_vars
    /\ [][(AllTexturesSettled /\ NumLoaded = 0)
             => (loaderPc' # "model" /\ FallbackAndContinue)]_vars

\* C8 witness: a castle two of whose three textures failed is in the result as
\* a loaded model with its embedded materials.
C8_Witness ==
    /\ Len(castleGroups) >= 1
    /\ Len(loadedTextures) = 1
    /\ Len(texStatus) = 3
    /\ loaderPc = "done"
    /\ castleGroups[Len(castleGroups)].kind = "model"
    /\ castleGroups[Len(castleGroups)].children[1].material.type = "embedded"

\* C9: a physically-based material bound to a mesh has the texture declared
\* at position 0 of its entry as normal map, the one at position 1 as
\* base-colour map and the one at position 2 as metalness/roughness map.
C9_ChannelsByManifestPosition ==
    \A k \in 1..Len(castleGroups) :
        \A m \in 1..Len(castleGroups[k].children) :
            LET mat == castleGroups[k].children[m].material
            IN  mat.type = "MeshStandardMaterial" =>
                    /\ mat.normalMap.entry = castleGroups[k].asset
                    /\ mat.map.entry = castleGroups[k].asset
                    /\ mat.metalnessMap.entry = castleGroups[k].asset
                    /\ mat.normalMap.slot = 0
                    /\ mat.map.slot = 1
                    /\ mat.metalnessMap.slot = 2
                    /\ mat.roughnessMap.slot = 2

\* C10: a texture that loaded at role index 0 or 2 has the linear (non-sRGB)
\* colour space, one that loaded at role index 1 has sRGB, and every loaded
\* texture has flipY false.
C10_ColorSpaceByRole ==
    \A j \in 1..Len(texStatus) :
        texStatus[j].state = "loaded" =>
            LET tx == texStatus[j].texture
            IN  /\ tx.slot = j - 1
                /\ tx.slot \in {0, 2} => tx.colorSpace = "NoColorSpace"
                /\ tx.slot = 1 => tx.colorSpace = "SRGBColorSpace"
                /\ tx.flipY = FALSE

\* C10 witness: the four textures of an entry have loaded, the fourth keeping
\* the sRGB colour space it was fetched with.
C10_Witness ==
    /\ Len(texStatus) = 4
    /\ \A j \in 1..4 : texStatus[j].state = "loaded"
    /\ texStatus[4].texture.colorSpace = "SRGBColorSpace"
(* ==================== claims: order of the fetches ==================== *)

\* a load is in flight: the fetches of the castle at loopI are out or settled
CastleInFlight == loaderPc \in {"textures", "model", "modelSettled"}

\* the group at index k (1-based) resolves entry k of the filtered manifest: it
\* is the fallback or holds the model of that entry
ResolvesEntry(groups, k) ==
    \/ groups[k].kind = "fallback"
    \/ groups[k].kind = "model" /\ groups[k].asset = manifest[k].id

\* C11: models load strictly in manifest order and never overlap: while the
\* fetches of entry i are out, every entry before i is resolved (its group built
\* or its fallback substituted) and no later entry has a group; the loader moves
\* from entry i to entry i+1 and to no other, in the step that resolves entry i,
\* and no fetch of entry i is pending in that step.
C11_OneCastleAtATime ==
    /\ [](CastleInFlight =>
            /\ Len(castleGroups) = loopI
            /\ Len(texStatus) = manifest[loopI + 1].textures
            /\ \A k \in 1..loopI : ResolvesEntry(castleGroups, k))
    /\ [][(CastleInFlight /\ loopI' # loopI) =>
            /\ loopI' = loopI + 1
            /\ loaderPc \in {"textures", "modelSettled"}
            /\ PromiseAll(texStatus)
            /\ Len(castleGroups') = loopI + 1
            /\ ResolvesEntry(castleGroups', loopI + 1)]_vars

\* C11 witness: the textures of the third entry are being fetched, the first
\* entry got the fallback and the second its model.
C11_Witness ==
    /\ loaderPc = "textures"
    /\ loopI = 2
    /\ \E j \in 1..Len(texStatus) : texStatus[j].state = "pending"
    /\ Len(castleGroups) = 2
    /\ castleGroups[1].kind = "fallback"
    /\ castleGroups[2].kind = "model"

\* the step issues the texture fetches of a castle: the first castle of the
\* load, or the castle after the one the step resolved
TextureFetchesIssued ==
    /\ loaderPc' = "textures"
    /\ loaderPc = "idle" \/ loopI' # loopI

\* C12: within one model load the fetches of all the declared textures are
\* issued together, in one step and all pending after it, and the model fetch
\* is issued only in a step that finds every texture fetch settled, loaded or
\* failed, whatever the order they settled in.
C12_TexturesTogetherThenModel ==
    /\ [][TextureFetchesIssued =>
            /\ Len(texStatus') = manifest'[loopI' + 1].textures
            /\ \A j \in 1..Len(texStatus') : texStatus'[j].state = "pending"
            /\ gltf' = "none"]_vars
    /\ [][(loaderPc # "model" /\ loaderPc' = "model") =>
            /\ loaderPc = "textures"
            /\ \A j \in 1..Len(texStatus) : texStatus[j].state \in {"loaded", "failed"}
            /\ texStatus' = texStatus]_vars
    /\ [](loaderPc \in {"model", "modelSettled"} =>
            \A j \in 1..Len(texStatus) : texStatus[j].state \in {"loaded", "failed"})

\* C12 witness: the model fetch is out for an entry of three textures, the
\* first of which failed while the other two loaded.
C12_Witness ==
    /\ loaderPc = "model"
    /\ Len(texStatus) = 3
    /\ texStatus[1].state = "failed"
    /\ texStatus[2].state = "loaded"
    /\ texStatus[3].state = "loaded"

(* ======================= claims: the lifecycle ======================== *)

\* every GPU resource of the scene is released: the meshes of every castle
\* are disposed, the renderer is disposed, the scene is cleared
AllDisposed ==
    /\ disposedCastles = 1..Len(castleGroups)
    /\ renderer = "disposed"
    /\ scene = << >>

\* C13: when the view is unmounted after loading has completed, the scheduled
\* tick is cancelled and the geometry, the texture bindings and the materials
\* of every group, the renderer and the scene graph eventually reach the
\* disposed state.
C13_UnmountDisposesResources ==
    (~mounted /\ ctxPc = "running") ~> (pendingFrames = {} /\ AllDisposed)

\* C14: once the view is unmounted no frame is pending, and while it stays
\* unmounted no frame runs (the frame count and the animation time stand
\* still) and none is requested, whether it was unmounted with the loop
\* running and a frame requested or while the load was in flight, in which
\* case the loop never starts.
C14_NoFrameAfterUnmount ==
    /\ [](~mounted => pendingFrames = {})
    /\ [][(~mounted /\ ~mounted') =>
            /\ frameCount' = frameCount
            /\ t' = t
            /\ animationRef' = animationRef
            /\ pendingFrames' = {}]_vars
    /\ [][(~mounted /\ ctxPc = "loading" /\ ctxPc' = "running") =>
            (frameCount' = 0 /\ animationRef' = 0)]_vars

\* C14 witness: the view was unmounted during the load of the shipped
\* manifest, the load has completed since and no frame has run.
C14_Witness ==
    /\ ~mounted
    /\ ctxPc = "running"
    /\ Len(castleGroups) = 3
    /\ frameCount = 0
    /\ animationRef = 0

LoaderCalled == ctxPc \in {"loading", "running"}

\* C16: an import that is no array and has no array as default, and a
\* manifest that is empty or has no entry with a model and a texture list,
\* give an empty model set: loadCastlesGroup returns an empty list at once,
\* issues no fetch and adds nothing to the scene; entries without a model or a
\* texture list are dropped before loading; and the render loop still starts
\* and keeps running with zero castles.
C16_BadManifestGivesEmptyScene ==
    /\ [](LoaderCalled => manifest = ValidEntries)
    /\ []((LoaderCalled /\ Len(ValidEntries) = 0) =>
            /\ loaderPc = "done"
            /\ castleGroups = << >>
            /\ scene = << >>
            /\ texStatus = << >>
            /\ gltf = "none")
    /\ [][(Len(ValidEntries) = 0 /\ mounted /\ ctxPc = "loading" /\ ctxPc' = "running")
            => (~loading' /\ frameCount' = 1 /\ pendingFrames' # {})]_vars
    /\ []((Len(ValidEntries) = 0 /\ mounted /\ ctxPc = "running") =>
            (pendingFrames = {frameCount}))

\* C16 witness: the default of the import holds entries but is no array; the
\* loading screen is hidden and the loop has run two frames on an empty scene.
C16_Witness ==
    /\ manifestShape = "malformed"
    /\ Len(modelsManifest) > 0
    /\ ~loading
    /\ frameCount >= 2
    /\ castleGroups = << >>
    /\ scene = << >>

(* ==================== claims: the animation driver ==================== *)

\* the step is a call of animateCastles that follows another call with the
\* same time and the same accumulated rotations
SecondCallSameInputs ==
    /\ lastEvent.type = "animateCastles"
    /\ lastEvent'.type = "animateCastles"
    /\ frameCount' = frameCount + 1
    /\ lastEvent'.a = lastEvent.a
    /\ castleRotations' = castleRotations

\* C17: animateCastles is idempotent and deterministic: a second call with the
\* same time and the same accumulated rotations leaves the position and the
\* rotation of every group as the first call left them, whatever they were
\* before the first; and what a call writes depends on the time and the index
\* of the group alone.
C17_DriverIdempotent ==
    /\ [][SecondCallSameInputs => castleGroups' = castleGroups]_vars
    /\ [](lastEvent.type = "animateCastles" =>
            \A k \in 1..Len(castleGroups) :
                LET fresh == animateCastles(ShippedCastles, lastEvent.a)[k]
                IN  /\ castleGroups[k].position = fresh.position
                    /\ castleGroups[k].rotation.x = fresh.rotation.x
                    /\ castleGroups[k].rotation.z = fresh.rotation.z)

\* C17 witness: animateCastles has been called twice in a row at time 2.5 on
\* groups that had been lifted and turned before.
C17_Witness ==
    /\ lastEvent = Event("animateCastles", 250, 0)
    /\ frameCount = 2
    /\ nEvents = 0
    /\ castleGroups[1].position.y # 0
    /\ castleGroups[1].rotation.y = PI \div 4

\* the step runs one frame
FrameStep == frameCount' = frameCount + 1

\* everything of a group but its position.y and its rotation
Untransformed(g) ==
    [kind |-> g.kind, asset |-> g.asset, children |-> g.children,
     x |-> g.position.x, z |-> g.position.z, scale |-> g.scale]

\* C18: the animation driver writes only transform fields: over any number of
\* frames every group keeps the position.x, the position.z and the scale the
\* loader gave it, its meshes and materials, and the groups of the scene and
\* their order stay the same; a frame leaves the camera targets and the
\* accumulated rotations alone, and the camera is where the smoothing of the
\* controller puts it.
C18_DriverWritesTransformsOnly ==
    /\ [](\A k \in 1..Len(castleGroups) :
            /\ castleGroups[k].position.x = (k - 2) * 30 * DistUnit
            /\ castleGroups[k].position.z = 0
            /\ castleGroups[k].scale = 22)
    /\ [][FrameStep =>
            /\ scene' = scene
            /\ Len(castleGroups') = Len(castleGroups)
            /\ \A k \in 1..Len(castleGroups) :
                  Untransformed(castleGroups'[k]) = Untransformed(castleGroups[k])
            /\ castleRotations' = castleRotations
            /\ targetCameraDistance' = targetCameraDistance
            /\ targetCameraRotation' = targetCameraRotation
            /\ touchStartDistance' = touchStartDistance
            /\ cameraDistance' = Lerp(cameraDistance, targetCameraDistance)
            /\ cameraRotation'.x = Lerp(cameraRotation.x, targetCameraRotation.x)
            /\ cameraRotation'.y = Lerp(cameraRotation.y, targetCameraRotation.y)]_vars

\* C18 witness: after a tap and a pan three frames have run and the first
\* castle floats off its initial height.
C18_Witness ==
    /\ frameCount = 3
    /\ castleRotations # <<0, 0, 0>>
    /\ targetCameraRotation.y # 0
    /\ cameraRotation.y # 0
    /\ castleGroups[1].position.y # 0

(* ===================== claims: accumulated rotation =================== *)

\* the step is a tap the handler accepts: its band is one of the three items
AcceptedTap ==
    /\ nEvents' = nEvents + 1
    /\ lastEvent'.type = "tap"
    /\ TapBand(lastEvent'.a) \in {0, 1, 2}

\* the accumulated rotations after a tap in the band of the step
AfterTap ==
    [castleRotations EXCEPT ![TapBand(lastEvent'.a) + 1] = @ + PI \div 4]

\* the step mounts the view again
MountStep == remounts' = remounts + 1

\* C19 as claimed: the accumulated rotations start at zero and are never reset
\* or decreased: under taps, pans, pinches, resets of the camera, frames,
\* unmounts and new mounts each accepted tap adds the tap increment to its item
\* and no other step changes any entry, so that each entry is the number of
\* accepted taps on its item times the increment.
C19_RotationsNeverReset ==
    /\ castleRotations = <<0, 0, 0>>
    /\ [][IF AcceptedTap
          THEN castleRotations' = AfterTap
          ELSE castleRotations' = castleRotations]_vars

\* C19 as amended: the same while one instance of the view lives; a new mount
\* of the view starts again from zero, so that each entry is the number of
\* accepted taps on its item since the last mount times the increment.
C19_RotationsResetOnMount ==
    /\ castleRotations = <<0, 0, 0>>
    /\ [][IF AcceptedTap THEN castleRotations' = AfterTap
          ELSE IF MountStep THEN castleRotations' = <<0, 0, 0>>
          ELSE castleRotations' = castleRotations]_vars

\* C19 witness: after a gesture on the first instance the view was mounted
\* again, and the middle item has been tapped once since.
C19_Witness ==
    /\ remounts = 1
    /\ lastEvent.type = "tap"
    /\ nEvents = MaxEvents
    /\ castleRotations = <<0, PI \div 4, 0>>

(* ====================== claims: the loading screen ==================== *)

\* C20: provided every texture and model fetch settles, the loading screen is
\* eventually hidden whatever fetches fail; it is never hidden before every
\* entry of the manifest is resolved to a loaded or a fallback group; the load
\* never rejects, and no failure shows in the gesture indicator.
C20_LoadingHiddenOnceAllResolved ==
    /\ (ctxPc = "loading") ~> ~loading
    /\ [](~loading =>
            /\ loaderPc = "done"
            /\ Len(castleGroups) = Len(manifest)
            /\ \A k \in 1..Len(castleGroups) :
                  castleGroups[k].kind \in {"model", "fallback"})
    /\ [](loaderPc # "rejected")
    /\ [](gestureIndicator = "")

\* C20 witness: the loading screen is hidden on a scene whose first castle is
\* the fallback, whose second is a model left untextured and whose third is a
\* textured model.
C20_Witness ==
    /\ ~loading
    /\ mounted
    /\ Len(castleGroups) = 3
    /\ castleGroups[1].kind = "fallback"
    /\ castleGroups[2].kind = "model"
    /\ castleGroups[2].children[1].material.type = "embedded"
    /\ castleGroups[3].children[1].material.type = "MeshStandardMaterial"


(* ========================= claims: the auth gate ======================= *)

\* the tabs are never displayed without a session
TabsNeedSession == (Displayed = "(tabs)") => session # 0

\* the auth screens are never displayed with a session
AuthNeedsNoSession == (Displayed = "(auth)") => session = 0

\* C21: once the initial session check has finished the tabs route is never
\* the displayed route while the session is null, and the auth route is never
\* the displayed route while a session exists, whatever sign-in attempts
\* (password or OAuth, succeeding or failing), auth events and sign-outs
\* happened.
C21_TabsGatedBySession == TabsNeedSession /\ AuthNeedsNoSession

(* ====================== claims: gestures and frames ==================== *)

\* the step runs the gesture handler named type
Handles(type) == nEvents' = nEvents + 1 /\ lastEvent'.type = type

\* clamp(d, 35, 80), in length units
ClampedZoom(d) ==
    IF d < 35 * DistUnit THEN 35 * DistUnit
    ELSE IF d > 80 * DistUnit THEN 80 * DistUnit
    ELSE d

\* C22: pinch start records the camera's current (smoothed) distance, not the
\* target distance, as the zoom reference; every pinch update sets the target
\* distance to clamp(reference / scaleFactor, 35, 80) and leaves the reference
\* as the start of its gesture recorded it (nothing but a pinch start writes
\* the reference); pinch end leaves the target distance, the current distance
\* and the reference unchanged.
C22_PinchZoomsFromCurrentDistance ==
    [][/\ Handles("pinchStart") =>
             /\ touchStartDistance' = cameraDistance
             /\ targetCameraDistance' = targetCameraDistance
             /\ cameraDistance' = cameraDistance
       /\ Handles("pinchUpdate") =>
             /\ touchStartDistance' = touchStartDistance
             /\ targetCameraDistance' =
                  ClampedZoom((touchStartDistance * 100) \div lastEvent'.a)
             /\ cameraDistance' = cameraDistance
       /\ Handles("pinchEnd") =>
             /\ touchStartDistance' = touchStartDistance
             /\ targetCameraDistance' = targetCameraDistance
             /\ cameraDistance' = cameraDistance
       /\ touchStartDistance' # touchStartDistance => Handles("pinchStart")]_vars

\* C22 witness: a second pinch starts while the camera is still on its way to
\* the target of the first: the reference is the current distance, which is
\* neither the target nor the default.
C22_Witness ==
    /\ lastEvent.type = "pinchStart"
    /\ touchStartDistance = cameraDistance
    /\ touchStartDistance # targetCameraDistance
    /\ touchStartDistance # CAMERA_DEFAULT_DISTANCE * DistUnit
    /\ targetCameraDistance # CAMERA_DEFAULT_DISTANCE * DistUnit

\* 0.01 rad per pixel, in angle units
PanAngle(pixels) == (pixels * AngleUnit) \div 100

\* the pitch is strictly inside its limits
PitchUnclamped(x) == 0 - PitchLimit < x /\ x < PitchLimit

\* C23: over one pan gesture the total change of target yaw is 0.01 x the
\* finger's net horizontal displacement, and of unclamped target pitch -0.01 x
\* the net vertical displacement, however many update events the gesture is
\* delivered as: the first update after the start moves the target by the
\* displacement it reports, and an update that follows an update of the same
\* gesture moves it by the difference of the two reported displacements.
C23_PanFollowsNetDisplacement ==
    [][/\ (lastEvent.type = "panStart" /\ Handles("panUpdate")) =>
             /\ targetCameraRotation'.y - targetCameraRotation.y
                  = PanAngle(lastEvent'.a)
             /\ PitchUnclamped(targetCameraRotation'.x) =>
                  targetCameraRotation'.x - targetCameraRotation.x
                      = 0 - PanAngle(lastEvent'.b)
       /\ (lastEvent.type = "panUpdate" /\ Handles("panUpdate")) =>
             /\ targetCameraRotation'.y - targetCameraRotation.y
                  = PanAngle(lastEvent'.a - lastEvent.a)
             /\ (PitchUnclamped(targetCameraRotation.x)
                 /\ PitchUnclamped(targetCameraRotation'.x)) =>
                  targetCameraRotation'.x - targetCameraRotation.x
                      = 0 - PanAngle(lastEvent'.b - lastEvent.b)]_vars

\* the limit of the pitch, 2 * 355 / (5 * 113) rad, in angle units
PitchBound == (2 * 355 * AngleUnit) \div (5 * 113)

\* C24: pan end causes no snap-back: it leaves the target rotation and the
\* target distance exactly as they were; a pan update adds its full angle to
\* the target yaw, which no event clamps or wraps, while the target pitch stays
\* within its limits; besides pan updates only the camera reset writes the
\* target yaw.
C24_PanEndKeepsTargets ==
    /\ [](0 - PitchBound <= targetCameraRotation.x
          /\ targetCameraRotation.x <= PitchBound)
    /\ [][/\ Handles("panEnd") =>
                /\ targetCameraRotation' = targetCameraRotation
                /\ targetCameraDistance' = targetCameraDistance
          /\ Handles("panUpdate") =>
                targetCameraRotation'.y
                    = targetCameraRotation.y + PanAngle(lastEvent'.a)
          /\ targetCameraRotation'.y # targetCameraRotation.y =>
                (Handles("panUpdate") \/ Handles("reset"))]_vars

\* C24 witness: a pan has ended with the target yaw more than a full turn
\* away, far beyond the limit of the pitch.
C24_Witness ==
    /\ lastEvent.type = "panEnd"
    /\ targetCameraRotation.y > 2 * PI
    /\ targetCameraRotation.y > PitchBound

Abs(x) == IF x < 0 THEN 0 - x ELSE x

\* one frame takes current to next under the target: next is current plus
\* 0.15 of the gap (rounded down to the resolution), it lies between current
\* and the target, and the gap that is left is at most 0.85 of the gap, up to
\* one unit of the resolution
Smoothed(current, target, next) ==
    /\ next = current + ((target - current) * 15) \div 100
    /\ (current <= target) => (current <= next /\ next <= target)
    /\ (current >= target) => (current >= next /\ next >= target)
    /\ Abs(target - next) <= Abs(target - current)
    /\ Abs(target - next) <= (Abs(target - current) * 85) \div 100 + 1

\* C25: on every frame, whether or not a gesture is active, the current
\* distance, pitch and yaw are each replaced by current + (target - current)
\* x 0.15; a frame never moves a current value past its target, the gap of
\* each of the three quantities does not grow, and it shrinks by the factor
\* 0.85 per frame, so that the current values converge to the targets.
C25_FrameSmoothsTowardsTargets ==
    [][FrameStep =>
          /\ targetCameraDistance' = targetCameraDistance
          /\ targetCameraRotation' = targetCameraRotation
          /\ Smoothed(cameraDistance, targetCameraDistance, cameraDistance')
          /\ Smoothed(cameraRotation.x, targetCameraRotation.x, cameraRotation'.x)
          /\ Smoothed(cameraRotation.y, targetCameraRotation.y,
                      cameraRotation'.y)]_vars

\* C25 witness: a frame has run while the zoom indicator is up and the
\* distance, the pitch and the yaw are all on their way to targets they have
\* not reached.
C25_Witness ==
    /\ lastEvent.type = "frame"
    /\ gestureIndicator = "ZOOMING"
    /\ cameraDistance # CAMERA_DEFAULT_DISTANCE * DistUnit
    /\ cameraDistance # targetCameraDistance
    /\ cameraRotation.x # 0
    /\ cameraRotation.x # targetCameraRotation.x
    /\ cameraRotation.y # 0
    /\ cameraRotation.y # targetCameraRotation.y

\* the item index k is out of range: it is below 0, at or above 3, or no
\* group is loaded at it
OutOfRange(k) == k < 0 \/ k >= 3 \/ k >= Len(castleGroups)

\* C26: a tap that maps to an out-of-range item index (below 0, at or above 3,
\* or with no loaded group at that index because fewer than three groups
\* exist) is ignored: no entry of the accumulated rotations changes and no
\* camera state changes.
C26_OutOfRangeTapIgnored ==
    [][(Handles("tap") /\ OutOfRange(TapBand(lastEvent'.a))) =>
          /\ castleRotations' = castleRotations
          /\ cameraDistance' = cameraDistance
          /\ cameraRotation' = cameraRotation
          /\ targetCameraDistance' = targetCameraDistance
          /\ targetCameraRotation' = targetCameraRotation
          /\ touchStartDistance' = touchStartDistance
          /\ cameraPosition' = cameraPosition]_vars

(* ========================= claims: the render loop ===================== *)

\* how often step occurs in the log of a tick
Occurrences(log, step) == Cardinality({k \in 1..Len(log) : log[k] = step})

\* C27 as claimed: each tick of the render loop advances the time, smooths and
\* places the camera, runs the animation driver, renders, presents the frame
\* and only then schedules the next tick; at most one tick is scheduled at any
\* time and each executed tick renders exactly once.
C27_SchedulesAfterPresenting ==
    /\ [](Cardinality(pendingFrames) <= 1)
    /\ [][FrameStep =>
            /\ tickLog' = << "t += 0.01", "camera", "animateCastles",
                             "renderer.render", "gl.endFrameEXP",
                             "requestAnimationFrame" >>
            /\ Occurrences(tickLog', "renderer.render") = 1]_vars

\* C27 as the code has it: each tick that finds the view mounted first
\* schedules the next tick, then advances the time, smooths and places the
\* camera, runs the animation driver, renders and presents the frame; at most
\* one tick is scheduled at any time, each such tick renders exactly once and
\* leaves exactly its own request out; a run of animate that finds the view
\* unmounted does none of the steps and schedules nothing.
C27_SchedulesBeforeAdvancing ==
    /\ [](Cardinality(pendingFrames) <= 1)
    /\ [][FrameStep =>
            /\ mounted
            /\ tickLog' = << "requestAnimationFrame", "t += 0.01", "camera",
                             "animateCastles", "renderer.render",
                             "gl.endFrameEXP" >>
            /\ Occurrences(tickLog', "renderer.render") = 1
            /\ Occurrences(tickLog', "requestAnimationFrame") = 1
            /\ t' = t + 1
            /\ pendingFrames' = {frameCount'}
            /\ animationRef' = frameCount']_vars
    /\ [][(~mounted /\ lastEvent'.type \in {"loaded", "frame"}) =>
            /\ tickLog' = << >>
            /\ frameCount' = frameCount
            /\ pendingFrames' = {}]_vars

\* C27 witness: the third tick has run on a view that was mounted again, and
\* its request for the fourth is the one request that is out.
C27_Witness ==
    /\ lastEvent.type = "frame"
    /\ frameCount >= 2
    /\ remounts >= 1
    /\ pendingFrames = {frameCount}
    /\ tickLog = TickSteps

(* ========================== claims: the console ======================== *)

\* the functions of the console that suppressGLWarnings replaces
ConsoleFunctions == {"log", "warn", "error"}

\* a message that matches no pattern of a function reaches the original
\* function exactly once
UnmatchedForwardedOnce ==
    \A fn \in ConsoleFunctions, msg \in ConsoleMessages :
        ~Suppresses(fn, msg) => ForwardedTimes(console[fn], fn, msg) = 1

\* C28: the warning suppression of loadCastlesGroup does not accumulate global
\* state: after any number of calls console.log, console.warn and
\* console.error are each wrapped by at most one suppression layer, and a
\* message that matches no suppression pattern is forwarded to the original
\* console function exactly once.
C28_ConsoleWrappedAtMostOnce ==
    /\ \A fn \in ConsoleFunctions : console[fn] <= 1
    /\ UnmatchedForwardedOnce

(* ======================= claims: the session check ===================== *)

\* while the session check is out the guard redirects nowhere and nothing is
\* rendered
GuardWaitsForSessionCheck ==
    /\ [](authLoading => Displayed = "none")
    /\ [][authLoading' => route' = route]_vars

\* C29: after AuthProvider mounts its loading flag becomes false whether the
\* initial getSession call resolves with a session, resolves with no session
\* or rejects: once the call has settled on a mounted provider, loading is
\* false; and the routing guard performs no redirect and renders nothing
\* while loading is true.
C29_SessionCheckEndsLoading ==
    /\ []((authMounted /\ getSessionPc \in {"resolved", "rejected"})
            => ~authLoading)
    /\ GuardWaitsForSessionCheck

\* the session of an unmounted provider does not change
NoUpdateAfterUnmount == [][~authMounted => session' = session]_vars

\* C30: for every interleaving of the resolution of the initial getSession
\* call with auth events, the session AuthProvider holds once both have been
\* processed is the session the most recent auth event delivered, which is the
\* session the backend holds (a late getSession resolution never overwrites a
\* newer session with a stale one); and no session update is applied after
\* the provider has unmounted.
C30_LatestSessionWins ==
    /\ []((authMounted /\ getSessionPc = "resolved" /\ nAuthEvents > 0)
            => session = backendSession)
    /\ NoUpdateAfterUnmount
=============================================================================
